---- MODULE Spec2Model ----
(***************************************************************************)
(* Verification model of the quantum-computer repository:                  *)
(*   - the single-qubit state engine        (src/utils/quantumEngine.ts)   *)
(*   - the circuit breaker                  (src/utils/analytics.ts)       *)
(*   - the client-side rate limiter         (src/index.tsx)                *)
(*                                                                         *)
(* Numbers of the engine are modelled exactly.  Every real the engine can  *)
(* produce from the canonical states with the six catalogue gates lies in  *)
(* the ring Z[sqrt 2][1/2]; a real is a record [p, q, k] standing for      *)
(* (p + q*sqrt(2)) / 2^k, kept in lowest terms.  The code computes the     *)
(* same values in IEEE doubles, which differ from these by rounding only.  *)
(***************************************************************************)
EXTENDS Integers, Sequences, FiniteSets, TLC

(***************************************************************************)
(* Bounds of the model.                                                    *)
(***************************************************************************)
\* gates applied to a state since it was last created or measured
MaxGates == 4
\* Math.random() is drawn from {0/RollDen, ..., (RollDen-1)/RollDen}
RollDen == 8
\* Date.now() when the page is loaded, in ms
StartTime == 100000
\* clock steps the breaker is followed for
MaxBreakerTicks == 8
\* failures recorded on the breaker before the model stops recording more
MaxFailures == 7
\* calls of canMakeRequest followed while the breaker stays half-open
MaxAdmits == 3
\* clock steps the rate limiter is followed for
MaxLimiterTicks == 64
\* largest cooldown value a check is evaluated with
MaxCooldown == 3
\* nodes created on the canvas over a session
MaxCreated == 2
\* gates applied to and measurements made of nodes over a session
MaxNodeOps == 2
\* messages the chat history is followed up to
MaxHistory == 2
\* nodes created where the links are followed
MaxLinked == 3
MaxIntervals == 3  \* calls of startPeriodicChecks explored
MaxChecks == 3     \* periodic checks explored
\* ids available where the universe is filled up
MaxFilled == 21
\* calls of Analytics.track over a session
MaxTrackCalls == 103
\* calls of ErrorTracker.logError over a session
MaxErrorCalls == 52
\* compute requests started over a session
MaxRequests == 1
\* compute requests followed after those, made while the API is down
MaxDownRequests == 5

(***************************************************************************)
(* Exact reals (p + q*sqrt 2) / 2^k.                                       *)
(***************************************************************************)
RECURSIVE Pow2(_)
Pow2(n) == IF n <= 0 THEN 1 ELSE 2 * Pow2(n - 1)

RECURSIVE RNorm(_)
RNorm(x) ==
  IF x.k > 0 /\ x.p % 2 = 0 /\ x.q % 2 = 0
  THEN RNorm([p |-> x.p \div 2, q |-> x.q \div 2, k |-> x.k - 1])
  ELSE x

Real(p, q, k) == RNorm([p |-> p, q |-> q, k |-> k])

RAdd(x, y) ==
  LET K == IF x.k > y.k THEN x.k ELSE y.k
  IN  Real(x.p * Pow2(K - x.k) + y.p * Pow2(K - y.k),
           x.q * Pow2(K - x.k) + y.q * Pow2(K - y.k), K)

RNeg(x) == [p |-> 0 - x.p, q |-> 0 - x.q, k |-> x.k]

RSub(x, y) == RAdd(x, RNeg(y))

RMul(x, y) ==
  Real(x.p * y.p + 2 * x.q * y.q, x.p * y.q + x.q * y.p, x.k + y.k)

\* sign of p + q*sqrt 2, decided in integers
RSign(x) ==
  CASE x.p = 0 /\ x.q = 0 -> 0
    [] x.p >= 0 /\ x.q >= 0 -> 1
    [] x.p <= 0 /\ x.q <= 0 -> -1
    [] x.p > 0 /\ x.q < 0 -> IF x.p * x.p > 2 * x.q * x.q THEN 1 ELSE -1
    [] OTHER -> IF 2 * x.q * x.q > x.p * x.p THEN 1 ELSE -1

RLess(x, y) == RSign(RSub(x, y)) = -1

R0 == Real(0, 0, 0)
R1 == Real(1, 0, 0)
RNeg1 == Real(-1, 0, 0)
\* 1 / Math.sqrt(2) = sqrt(2) / 2
RInvSqrt2 == Real(0, 1, 1)

\* Math.cos and Math.sin at the angle n * PI / 4
CosPi4(n) ==
  CASE n % 8 = 0 -> R1
    [] n % 8 \in {1, 7} -> RInvSqrt2
    [] n % 8 \in {2, 6} -> R0
    [] n % 8 \in {3, 5} -> RNeg(RInvSqrt2)
    [] OTHER -> RNeg1

SinPi4(n) == CosPi4(n + 6)

(***************************************************************************)
(* Complex number math (quantumEngine.ts).                                 *)
(***************************************************************************)
createComplex(r, i) == [r |-> r, i |-> i]

add(a, b) == [r |-> RAdd(a.r, b.r), i |-> RAdd(a.i, b.i)]

multiply(a, b) ==
  [r |-> RSub(RMul(a.r, b.r), RMul(a.i, b.i)),
   i |-> RAdd(RMul(a.r, b.i), RMul(a.i, b.r))]

\* Math.sqrt(c.r*c.r + c.i*c.i), kept as the square root of its radicand
magnitude(c) == [sqrtOf |-> RAdd(RMul(c.r, c.r), RMul(c.i, c.i))]

\* e^(i*theta) for theta = n * PI / 4
expImaginary(n) == [r |-> CosPi4(n), i |-> SinPi4(n)]

(***************************************************************************)
(* Quantum logic.                                                          *)
(***************************************************************************)
INITIAL_STATE == [alpha |-> createComplex(R1, R0), beta |-> createComplex(R0, R0)]

STATE_ONE == [alpha |-> createComplex(R0, R0), beta |-> createComplex(R1, R0)]

STATE_ZERO == [alpha |-> createComplex(R1, R0), beta |-> createComplex(R0, R0)]

ZERO == createComplex(R0, R0)
ONE == createComplex(R1, R0)
NEG_ONE == createComplex(RNeg1, R0)
I == createComplex(R0, R1)
NEG_I == createComplex(R0, RNeg1)
INV_SQRT_2 == createComplex(RInvSqrt2, R0)

GateType == {"H", "X", "Y", "Z", "S", "T"}

\* a Hadamard whose lower-right entry lost its minus sign
GATES_signSlip(g) ==
  CASE g = "H" -> << <<INV_SQRT_2, INV_SQRT_2>>, <<INV_SQRT_2, INV_SQRT_2>> >>
    [] g = "X" -> << <<ZERO, ONE>>, <<ONE, ZERO>> >>
    [] g = "Y" -> << <<ZERO, NEG_I>>, <<I, ZERO>> >>
    [] g = "Z" -> << <<ONE, ZERO>>, <<ZERO, NEG_ONE>> >>
    [] g = "S" -> << <<ONE, ZERO>>, <<ZERO, I>> >>
    [] g = "T" -> << <<ONE, ZERO>>, <<ZERO, expImaginary(1)>> >>

\* a Z whose lower-right entry is the one of S
GATES_zIsS(g) ==
  CASE g = "H" -> << <<INV_SQRT_2, INV_SQRT_2>>,
                     <<INV_SQRT_2, createComplex(RNeg(RInvSqrt2), R0)>> >>
    [] g = "X" -> << <<ZERO, ONE>>, <<ONE, ZERO>> >>
    [] g = "Y" -> << <<ZERO, NEG_I>>, <<I, ZERO>> >>
    [] g = "Z" -> << <<ONE, ZERO>>, <<ZERO, I>> >>
    [] g = "S" -> << <<ONE, ZERO>>, <<ZERO, I>> >>
    [] g = "T" -> << <<ONE, ZERO>>, <<ZERO, expImaginary(1)>> >>

\* a T whose lower-right entry kept only cos(PI/4)
GATES_tRealOnly(g) ==
  CASE g = "H" -> << <<INV_SQRT_2, INV_SQRT_2>>,
                     <<INV_SQRT_2, createComplex(RNeg(RInvSqrt2), R0)>> >>
    [] g = "X" -> << <<ZERO, ONE>>, <<ONE, ZERO>> >>
    [] g = "Y" -> << <<ZERO, NEG_I>>, <<I, ZERO>> >>
    [] g = "Z" -> << <<ONE, ZERO>>, <<ZERO, NEG_ONE>> >>
    [] g = "S" -> << <<ONE, ZERO>>, <<ZERO, I>> >>
    [] g = "T" -> << <<ONE, ZERO>>, <<ZERO, createComplex(CosPi4(1), R0)>> >>

GATES(g) ==
  CASE g = "H" -> << <<INV_SQRT_2, INV_SQRT_2>>,
                     <<INV_SQRT_2, createComplex(RNeg(RInvSqrt2), R0)>> >>
    [] g = "X" -> << <<ZERO, ONE>>, <<ONE, ZERO>> >>
    [] g = "Y" -> << <<ZERO, NEG_I>>, <<I, ZERO>> >>
    [] g = "Z" -> << <<ONE, ZERO>>, <<ZERO, NEG_ONE>> >>
    [] g = "S" -> << <<ONE, ZERO>>, <<ZERO, I>> >>
    [] g = "T" -> << <<ONE, ZERO>>, <<ZERO, expImaginary(1)>> >>

\* the matrix read column by column
applyGate_transposed(state, gate) ==
  LET matrix == GATES(gate)
      newAlpha == add(multiply(matrix[1][1], state.alpha),
                      multiply(matrix[2][1], state.beta))
      newBeta == add(multiply(matrix[1][2], state.alpha),
                     multiply(matrix[2][2], state.beta))
  IN  [alpha |-> newAlpha, beta |-> newBeta]

applyGate(state, gate) ==
  LET matrix == GATES(gate)
      newAlpha == add(multiply(matrix[1][1], state.alpha),
                      multiply(matrix[1][2], state.beta))
      newBeta == add(multiply(matrix[2][1], state.alpha),
                     multiply(matrix[2][2], state.beta))
  IN  [alpha |-> newAlpha, beta |-> newBeta]

\* an unknown name treated as the identity gate
applyGateCall_lenient(state, name) ==
  IF name \in GateType
  THEN [threw |-> "none", value |-> applyGate(state, name), arithmetic |-> 6]
  ELSE [threw |-> "none", value |-> state, arithmetic |-> 0]

\* the call applyGate(state, name) at run time, for any string name.  For a
\* name that is not a key of GATES the lookup GATES[name] gives undefined, and
\* reading matrix[0], to build the argument of the first multiply, throws a
\* TypeError.  arithmetic counts the calls of multiply and add made.
applyGateCall(state, name) ==
  IF name \in GateType
  THEN [threw |-> "none", value |-> applyGate(state, name), arithmetic |-> 6]
  ELSE [threw |-> "TypeError", arithmetic |-> 0]

\* Math.asin(Math.min(Math.max(m, 0), 1)) in units of PI/4, for m the square
\* root of the radicand of mag; tabulated where the result is such a multiple
AsinTabulated(mag) ==
  \/ RSign(mag.sqrtOf) <= 0
  \/ ~RLess(mag.sqrtOf, R1)
  \/ mag.sqrtOf = Real(1, 0, 1)

AsinClamped(mag) ==
  CASE RSign(mag.sqrtOf) <= 0 -> 0
    [] ~RLess(mag.sqrtOf, R1) -> 2
    [] mag.sqrtOf = Real(1, 0, 1) -> 1

\* Math.atan2(y, x) in units of PI/4, tabulated where it is such a multiple
Atan2Tabulated(y, x) ==
  \/ RSign(y) = 0
  \/ RSign(x) = 0
  \/ (IF RSign(y) < 0 THEN RNeg(y) ELSE y) = (IF RSign(x) < 0 THEN RNeg(x) ELSE x)

Atan2(y, x) ==
  LET sy == RSign(y)
      sx == RSign(x)
      ay == IF sy < 0 THEN RNeg(y) ELSE y
      ax == IF sx < 0 THEN RNeg(x) ELSE x
  IN  CASE sy = 0 /\ sx >= 0 -> 0
        [] sy = 0 /\ sx < 0 -> 4
        [] sx = 0 -> 2 * sy
        [] ax = ay -> IF sx > 0 THEN sy ELSE 3 * sy

\* the states whose angles are all tabulated
BlochTabulated(state) ==
  /\ AsinTabulated(magnitude(state.beta))
  /\ Atan2Tabulated(state.alpha.i, state.alpha.r)
  /\ Atan2Tabulated(state.beta.i, state.beta.r)

\* theta taken as asin(|beta|), without the factor 2
getBlochCoordinates_halfAngle(state) ==
  LET magBeta == magnitude(state.beta)
      theta == AsinClamped(magBeta)
      phaseAlpha == Atan2(state.alpha.i, state.alpha.r)
      phaseBeta == Atan2(state.beta.i, state.beta.r)
      phi == phaseBeta - phaseAlpha
  IN  [x |-> RMul(SinPi4(theta), CosPi4(phi)),
       y |-> RMul(SinPi4(theta), SinPi4(phi)),
       z |-> CosPi4(theta)]

\* angles are in units of PI/4
getBlochCoordinates(state) ==
  LET magBeta == magnitude(state.beta)
      theta == 2 * AsinClamped(magBeta)
      phaseAlpha == Atan2(state.alpha.i, state.alpha.r)
      phaseBeta == Atan2(state.beta.i, state.beta.r)
      phi == phaseBeta - phaseAlpha
  IN  [x |-> RMul(SinPi4(theta), CosPi4(phi)),
       y |-> RMul(SinPi4(theta), SinPi4(phi)),
       z |-> CosPi4(theta)]

\* magBeta * magBeta: the square of a square root is its radicand
getProbability(state) ==
  LET magBeta == magnitude(state.beta)
  IN  magBeta.sqrtOf

\* the comparison written as roll <= probOne
RollBelow_orEqual(n, probOne) ==
  RSign([p |-> RollDen * probOne.p - n * Pow2(probOne.k),
         q |-> RollDen * probOne.q, k |-> 0]) >= 0

\* roll < probOne for the draw roll = n / RollDen
RollBelow(n, probOne) ==
  RSign([p |-> RollDen * probOne.p - n * Pow2(probOne.k),
         q |-> RollDen * probOne.q, k |-> 0]) = 1

\* the two collapsed states returned the wrong way round
measure_swapped(state, n) ==
  LET probOne == getProbability(state)
  IN  IF RollBelow(n, probOne)
      THEN [collapsedState |-> STATE_ZERO, outcome |-> 1]
      ELSE [collapsedState |-> STATE_ONE, outcome |-> 0]

\* n is the numerator of the Math.random() draw
measure(state, n) ==
  LET probOne == getProbability(state)
  IN  IF RollBelow(n, probOne)
      THEN [collapsedState |-> STATE_ONE, outcome |-> 1]
      ELSE [collapsedState |-> STATE_ZERO, outcome |-> 0]

(***************************************************************************)
(* Circuit breaker (class CircuitBreaker).  The object's state is a record *)
(* [state, failures, lastFailureTime, successCount]; each method is an     *)
(* operator from the record (and Date.now()) to the record it leaves.      *)
(***************************************************************************)
failureThreshold == 5
timeout == 60000
halfOpenSuccessThreshold == 2

BreakerInitial ==
  [state |-> "closed", failures |-> 0, lastFailureTime |-> 0, successCount |-> 0]

\* the timeout test written with >= instead of >
canMakeRequest_atTimeout(b, t) ==
  CASE b.state = "closed" -> [b |-> b, ret |-> TRUE]
    [] b.state = "open" ->
         IF t - b.lastFailureTime >= timeout
         THEN [b |-> [b EXCEPT !.state = "half-open", !.successCount = 0],
               ret |-> TRUE]
         ELSE [b |-> b, ret |-> FALSE]
    [] b.state = "half-open" -> [b |-> b, ret |-> TRUE]
    [] OTHER -> [b |-> b, ret |-> FALSE]

\* t is Date.now(); the result is the object after the call and the value returned
canMakeRequest(b, t) ==
  CASE b.state = "closed" -> [b |-> b, ret |-> TRUE]
    [] b.state = "open" ->
         IF t - b.lastFailureTime > timeout
         THEN [b |-> [b EXCEPT !.state = "half-open", !.successCount = 0],
               ret |-> TRUE]
         ELSE [b |-> b, ret |-> FALSE]
    [] b.state = "half-open" -> [b |-> b, ret |-> TRUE]
    [] OTHER -> [b |-> b, ret |-> FALSE]

\* closing without clearing the failure count
recordSuccess_keepFailures(b) ==
  CASE b.state = "half-open" ->
         IF b.successCount + 1 >= halfOpenSuccessThreshold
         THEN [b EXCEPT !.state = "closed", !.successCount = 0]
         ELSE [b EXCEPT !.successCount = b.successCount + 1]
    [] b.state = "closed" -> [b EXCEPT !.failures = 0]
    [] OTHER -> b

recordSuccess(b) ==
  CASE b.state = "half-open" ->
         IF b.successCount + 1 >= halfOpenSuccessThreshold
         THEN [b EXCEPT !.state = "closed", !.failures = 0, !.successCount = 0]
         ELSE [b EXCEPT !.successCount = b.successCount + 1]
    [] b.state = "closed" -> [b EXCEPT !.failures = 0]
    [] OTHER -> b

\* the threshold test written with > instead of >=
recordFailure_offByOne(b, t) ==
  LET f == b.failures + 1
      c == [b EXCEPT !.failures = f, !.lastFailureTime = t]
  IN  CASE b.state = "half-open" -> [c EXCEPT !.state = "open", !.successCount = 0]
        [] b.state = "closed" /\ f > failureThreshold -> [c EXCEPT !.state = "open"]
        [] OTHER -> c

\* a failure in half-open that leaves lastFailureTime as it was
recordFailure_keepTime(b, t) ==
  LET f == b.failures + 1
      c == [b EXCEPT !.failures = f, !.lastFailureTime = t]
  IN  CASE b.state = "half-open" ->
             [b EXCEPT !.failures = f, !.state = "open", !.successCount = 0]
        [] b.state = "closed" /\ f >= failureThreshold -> [c EXCEPT !.state = "open"]
        [] OTHER -> c

\* a failure in half-open that leaves successCount as it was
recordFailure_keepCount(b, t) ==
  LET f == b.failures + 1
      c == [b EXCEPT !.failures = f, !.lastFailureTime = t]
  IN  CASE b.state = "half-open" -> [c EXCEPT !.state = "open"]
        [] b.state = "closed" /\ f >= failureThreshold -> [c EXCEPT !.state = "open"]
        [] OTHER -> c

recordFailure(b, t) ==
  LET f == b.failures + 1
      c == [b EXCEPT !.failures = f, !.lastFailureTime = t]
  IN  CASE b.state = "half-open" -> [c EXCEPT !.state = "open", !.successCount = 0]
        [] b.state = "closed" /\ f >= failureThreshold -> [c EXCEPT !.state = "open"]
        [] OTHER -> c

reset(b) == BreakerInitial

(***************************************************************************)
(* Client-side rate limiter (App, index.tsx).                              *)
(***************************************************************************)
MAX_CALLS_PER_MINUTE == 20
\* the spacing the README documents
MIN_TIME_BETWEEN_CALLS_readme == 1000

MIN_TIME_BETWEEN_CALLS == 2000
RATE_LIMIT_WINDOW == 60000

\* Math.ceil(x / d) for integers
Ceil(x, d) == 0 - ((0 - x) \div d)

NoMessage == [words |-> <<>>, seconds |-> 0]

CooldownMessage(n) ==
  [words |-> <<"Rate", "limit", "cooldown", "active.", "Please", "wait", "{n}",
               "second{s}", "before", "trying", "again.">>,
   seconds |-> n]

SpacingMessage(n) ==
  [words |-> <<"Please", "wait", "{n}", "second{s}", "before", "another",
               "computation.">>,
   seconds |-> n]

LimitMessage(n) ==
  [words |-> <<"Rate", "limit", "reached", "({MAX_CALLS_PER_MINUTE}", "calls",
               "per", "minute).", "Please", "wait", "{n}", "second{s}", "before",
               "trying", "again.">>,
   seconds |-> n]

\* the spacing test written with <= instead of <
checkRateLimit_inclusive(t, last, count, wstart, cooldown) ==
  LET timeSinceLastCall == t - last
      isFirstCall == last = 0
      expired == t - wstart > RATE_LIMIT_WINDOW
      count1 == IF expired THEN 0 ELSE count
      wstart1 == IF expired THEN t ELSE wstart
      set1 == IF expired THEN 0 ELSE -1
      refs(sc) == [count |-> count1, windowStart |-> wstart1, setCooldown |-> sc]
  IN  IF cooldown > 0 /\ ~isFirstCall
      THEN [allowed |-> FALSE, message |-> CooldownMessage(cooldown)] @@ refs(set1)
      ELSE IF ~isFirstCall /\ timeSinceLastCall <= MIN_TIME_BETWEEN_CALLS
      THEN [allowed |-> FALSE,
            message |-> SpacingMessage(
               Ceil(MIN_TIME_BETWEEN_CALLS - timeSinceLastCall, 1000))] @@ refs(set1)
      ELSE IF ~isFirstCall /\ count1 >= MAX_CALLS_PER_MINUTE
      THEN LET windowElapsed == t - wstart1
               remaining == Ceil(RATE_LIMIT_WINDOW - windowElapsed, 1000)
           IN  [allowed |-> FALSE, message |-> LimitMessage(remaining)]
                 @@ refs(remaining)
      ELSE [allowed |-> TRUE, message |-> NoMessage] @@ refs(set1)

\* no exemption for the first call (isFirstCall never set)
checkRateLimit_noFirstCall(t, last, count, wstart, cooldown) ==
  LET timeSinceLastCall == t - last
      isFirstCall == FALSE
      expired == t - wstart > RATE_LIMIT_WINDOW
      count1 == IF expired THEN 0 ELSE count
      wstart1 == IF expired THEN t ELSE wstart
      set1 == IF expired THEN 0 ELSE -1
      refs(sc) == [count |-> count1, windowStart |-> wstart1, setCooldown |-> sc]
  IN  IF cooldown > 0 /\ ~isFirstCall
      THEN [allowed |-> FALSE, message |-> CooldownMessage(cooldown)] @@ refs(set1)
      ELSE IF ~isFirstCall /\ timeSinceLastCall < MIN_TIME_BETWEEN_CALLS
      THEN [allowed |-> FALSE,
            message |-> SpacingMessage(
               Ceil(MIN_TIME_BETWEEN_CALLS - timeSinceLastCall, 1000))] @@ refs(set1)
      ELSE IF ~isFirstCall /\ count1 >= MAX_CALLS_PER_MINUTE
      THEN LET windowElapsed == t - wstart1
               remaining == Ceil(RATE_LIMIT_WINDOW - windowElapsed, 1000)
           IN  [allowed |-> FALSE, message |-> LimitMessage(remaining)]
                 @@ refs(remaining)
      ELSE [allowed |-> TRUE, message |-> NoMessage] @@ refs(set1)

\* t is Date.now(); last, count, wstart are the three refs; cooldown is the
\* rateLimitCooldown the function closed over.  The result carries the value
\* returned, the refs as the call leaves them, and the argument of the last
\* setRateLimitCooldown call made (-1 when none was made).
checkRateLimit(t, last, count, wstart, cooldown) ==
  LET timeSinceLastCall == t - last
      isFirstCall == last = 0
      expired == t - wstart > RATE_LIMIT_WINDOW
      count1 == IF expired THEN 0 ELSE count
      wstart1 == IF expired THEN t ELSE wstart
      set1 == IF expired THEN 0 ELSE -1
      refs(sc) == [count |-> count1, windowStart |-> wstart1, setCooldown |-> sc]
  IN  IF cooldown > 0 /\ ~isFirstCall
      THEN [allowed |-> FALSE, message |-> CooldownMessage(cooldown)] @@ refs(set1)
      ELSE IF ~isFirstCall /\ timeSinceLastCall < MIN_TIME_BETWEEN_CALLS
      THEN [allowed |-> FALSE,
            message |-> SpacingMessage(
               Ceil(MIN_TIME_BETWEEN_CALLS - timeSinceLastCall, 1000))] @@ refs(set1)
      ELSE IF ~isFirstCall /\ count1 >= MAX_CALLS_PER_MINUTE
      THEN LET windowElapsed == t - wstart1
               remaining == Ceil(RATE_LIMIT_WINDOW - windowElapsed, 1000)
           IN  [allowed |-> FALSE, message |-> LimitMessage(remaining)]
                 @@ refs(remaining)
      ELSE [allowed |-> TRUE, message |-> NoMessage] @@ refs(set1)

(***************************************************************************)
(* The retry loop of collapseWavefunction (index.tsx).  A message is the   *)
(* sequence of its tokens; an error is [name, message, isRateLimit].       *)
(***************************************************************************)
maxRetries == 3

\* message.includes(pattern)
Includes(message, pattern) ==
  \E i \in 1..(Len(message) - Len(pattern) + 1) :
    SubSeq(message, i, i + Len(pattern) - 1) = pattern

NewError(message) == [name |-> "Error", message |-> message, isRateLimit |-> FALSE]

KeyMissingMessage ==
  <<"OpenRouter", "API", "key", "not", "configured", ".", "Please", "add",
    "VITE_OPENROUTER_API_KEY", "to", ".env.local">>

InvalidKeyMessage ==
  <<"Invalid", "API", "key", ".", "Please", "check", "your",
    "VITE_OPENROUTER_API_KEY", "in", ".env.local">>

CreditsMessage ==
  <<"Insufficient", "credits", ".", "Please", "add", "credits", "to", "your",
    "OpenRouter", "account", ".">>

ModelMessage ==
  <<"Model", "{model}", "is", "not", "available", ".", "Please", "update",
    "VITE_AI_MODEL", "in", ".env.local", "to", "a", "valid", "model">>

FormatMessage == <<"Invalid", "response", "format", "from", "API">>

TimeoutMessage == <<"Request", "timeout", ".", "Please", "try", "again", ".">>

RateLimitMessage(seconds) ==
  <<"API", "rate", "limit", "exceeded", "after", ToString(maxRetries + 1),
    "attempts", ".", "Please", "wait", ToString(seconds), "seconds", "and",
    "try", "again", ".">>

\* what fetch rejects with
NetworkError ==
  [name |-> "TypeError", message |-> <<"Failed", "to", "fetch">>,
   isRateLimit |-> FALSE]

AbortError ==
  [name |-> "AbortError", message |-> <<"signal", "is", "aborted", "without",
                                        "reason">>,
   isRateLimit |-> FALSE]

\* a response: [kind |-> "rejected", error] when fetch rejects, otherwise
\* [kind |-> "http", status, retryAfter, message, valid]; retryAfter is the
\* Retry-After header in seconds, -1 when absent; message is the error
\* message of the body; valid says whether the body holds choices[0].message
Rejected(error) == [kind |-> "rejected", error |-> error]

Http(status, retryAfter, message, valid) ==
  [kind |-> "http", status |-> status, retryAfter |-> retryAfter,
   message |-> message, valid |-> valid]

\* the delay computed from the retry count before it was incremented
backoffDelay_test(retryCount) == Pow2(retryCount - 1) * 1000

\* Math.pow(2, retryCount) * 1000, retryCount already incremented
backoffDelay(retryCount) == Pow2(retryCount) * 1000

\* the result of a block: what it does next and the state it leaves
Step(does, error, waitTime, setCooldown, fetched, retryCount) ==
  [does |-> does, error |-> error, waitTime |-> waitTime,
   setCooldown |-> setCooldown, fetched |-> fetched, retryCount |-> retryCount]

NoError == [name |-> "", message |-> <<>>, isRateLimit |-> FALSE]

\* the try block of one iteration of the loop, up to its return, its throw or
\* its wait; does is "return", "throw" or "wait429"
TryBlock(keyConfigured, response, retryCount) ==
  LET throw(e, f) == Step("throw", e, 0, -1, f, retryCount)
  IN  IF ~keyConfigured THEN throw(NewError(KeyMissingMessage), FALSE)
      ELSE IF response.kind = "rejected" THEN throw(response.error, TRUE)
      ELSE IF response.status = 200
      THEN IF response.valid
           THEN Step("return", NoError, 0, -1, TRUE, retryCount)
           ELSE throw(NewError(FormatMessage), TRUE)
      ELSE IF response.status = 429
      THEN LET waitTime == IF response.retryAfter = -1 THEN 10
                           ELSE response.retryAfter
           IN  IF retryCount < maxRetries
               THEN Step("wait429", NoError, waitTime, -1, TRUE, retryCount)
               ELSE LET finalWaitTime == IF waitTime < 30 THEN waitTime ELSE 30
                    IN  Step("throw",
                             [name |-> "Error",
                              message |-> RateLimitMessage(finalWaitTime),
                              isRateLimit |-> TRUE],
                             0, finalWaitTime, TRUE, retryCount)
      ELSE IF response.status = 401 THEN throw(NewError(InvalidKeyMessage), TRUE)
      ELSE IF response.status = 402 THEN throw(NewError(CreditsMessage), TRUE)
      ELSE IF \/ Includes(response.message, <<"No", "endpoints", "found">>)
              \/ Includes(response.message, <<"model">>)
              \/ Includes(response.message, <<"not", "found">>)
      THEN throw(NewError(ModelMessage), TRUE)
      ELSE throw(NewError(response.message), TRUE)

\* a catch block that forgets to count the retry
CatchBlock_noCount(e, retryCount) ==
  IF e.name = "AbortError"
  THEN Step("throwOuter", NewError(TimeoutMessage), 0, -1, FALSE, retryCount)
  ELSE IF \/ Includes(e.message, <<"API", "key">>)
          \/ Includes(e.message, <<"401">>)
          \/ Includes(e.message, <<"402">>)
  THEN Step("throwOuter", e, 0, -1, FALSE, retryCount)
  ELSE IF \/ e.isRateLimit
          \/ Includes(e.message, <<"API", "rate", "limit", "exceeded", "after">>)
  THEN Step("throwOuter", e, 0, -1, FALSE, retryCount)
  ELSE Step("backoff", e, backoffDelay(retryCount + 1), -1, FALSE, retryCount)

\* a catch block that retries whatever was thrown
CatchBlock_retryAll(e, retryCount) ==
  LET rc == retryCount + 1
  IN  IF rc <= maxRetries
      THEN Step("backoff", e, backoffDelay(rc), -1, FALSE, rc)
      ELSE Step("fallThrough", e, 0, -1, FALSE, rc)

\* the catch block of the iteration; does is "throwOuter", "backoff" or
\* "fallThrough" (the loop body ends without a wait)
CatchBlock(e, retryCount) ==
  IF e.name = "AbortError"
  THEN Step("throwOuter", NewError(TimeoutMessage), 0, -1, FALSE, retryCount)
  ELSE IF \/ Includes(e.message, <<"API", "key">>)
          \/ Includes(e.message, <<"401">>)
          \/ Includes(e.message, <<"402">>)
  THEN Step("throwOuter", e, 0, -1, FALSE, retryCount)
  ELSE IF \/ e.isRateLimit
          \/ Includes(e.message, <<"API", "rate", "limit", "exceeded", "after">>)
  THEN Step("throwOuter", e, 0, -1, FALSE, retryCount)
  ELSE LET rc == retryCount + 1
       IN  IF rc <= maxRetries
           THEN Step("backoff", e, backoffDelay(rc), -1, FALSE, rc)
           ELSE Step("fallThrough", e, 0, -1, FALSE, rc)

(***************************************************************************)
(* The in-memory logs: class Analytics (analytics.ts) and class            *)
(* ErrorTracker (errorTracker.ts).  An entry is known by the number of the *)
(* call that made it, which orders entries as their timestamps do.         *)
(***************************************************************************)
maxEvents == 100
maxErrors == 50

AnalyticsInitial == [events |-> <<>>, enabled |-> TRUE]

ErrorTrackerInitial == [errors |-> <<>>]

\* the newest entry dropped instead of the oldest (pop for shift)
track_popNewest(a, entry) ==
  IF ~a.enabled THEN a
  ELSE LET pushed == Append(a.events, entry)
       IN  IF Len(pushed) > maxEvents
           THEN [a EXCEPT !.events = SubSeq(pushed, 1, Len(pushed) - 1)]
           ELSE [a EXCEPT !.events = pushed]

\* Analytics.track: push, then shift when the log is longer than maxEvents
track(a, entry) ==
  IF ~a.enabled THEN a
  ELSE LET pushed == Append(a.events, entry)
       IN  IF Len(pushed) > maxEvents
           THEN [a EXCEPT !.events = Tail(pushed)]
           ELSE [a EXCEPT !.events = pushed]

\* ErrorTracker.logError: push, then shift when the log is longer than maxErrors
logError(t, entry) ==
  LET pushed == Append(t.errors, entry)
  IN  IF Len(pushed) > maxErrors
      THEN [t EXCEPT !.errors = Tail(pushed)]
      ELSE [t EXCEPT !.errors = pushed]

(***************************************************************************)
(* The canvas of App (index.tsx): nodes, entanglement links, selection.    *)
(* A node is a record [id, label, state]; ids stand for the UUIDs,         *)
(* 0 for null.  A link is [sourceId, targetId, strength], the strength in  *)
(* hundredths.  A selected link id is the pair <<sourceId, targetId>> the  *)
(* string `${sourceId}-${targetId}` is built from, <<>> for null.          *)
(***************************************************************************)
MAX_NODES == 20
MAX_LABEL_LENGTH == 20

\* the string of n characters c
Chars(c, n) == [i \in 1..n |-> c]

\* White space of String.prototype.trim
IsSpace(c) == c \in {" ", "\t", "\n"}

RECURSIVE TrimStart(_)
TrimStart(str) ==
  IF str # <<>> /\ IsSpace(Head(str)) THEN TrimStart(Tail(str)) ELSE str

RECURSIVE TrimEnd(_)
TrimEnd(str) ==
  IF str # <<>> /\ IsSpace(str[Len(str)])
  THEN TrimEnd(SubSeq(str, 1, Len(str) - 1))
  ELSE str

\* str.trim()
Trim(str) == TrimEnd(TrimStart(str))

\* prev.map(f) and prev.filter(keep) of the state updaters
RECURSIVE MapSeq(_, _)
MapSeq(f(_), seq) ==
  IF seq = <<>> THEN <<>> ELSE <<f(Head(seq))>> \o MapSeq(f, Tail(seq))

RECURSIVE FilterSeq(_, _)
FilterSeq(keep(_), seq) ==
  IF seq = <<>> THEN <<>>
  ELSE (IF keep(Head(seq)) THEN <<Head(seq)>> ELSE <<>>) \o FilterSeq(keep, Tail(seq))

\* the gate applied to every node of the list
applyNodeGate_all(ns, selected, gate) ==
  LET f(n) == [n EXCEPT !.state = applyGate(n.state, gate)]
  IN  MapSeq(f, ns)

\* the updater of applyNodeGate: prev.map(n => n.id === selectedNodeId ? ... : n)
applyNodeGate(ns, selected, gate) ==
  LET f(n) == IF n.id = selected
              THEN [n EXCEPT !.state = applyGate(n.state, gate)]
              ELSE n
  IN  MapSeq(f, ns)

\* the updater of measureNode
setCollapsed(ns, selected, collapsedState) ==
  LET f(n) == IF n.id = selected THEN [n EXCEPT !.state = collapsedState] ELSE n
  IN  MapSeq(f, ns)

\* nodes.find(n => n.id === id): the set holding the node found, if any
FindNode(ns, id) ==
  LET hits == {i \in DOMAIN ns : ns[i].id = id}
  IN  IF hits = {} THEN {}
      ELSE {ns[CHOOSE i \in hits : \A j \in hits : i <= j]}

\* a search that finds a link only in the direction it was made in
FindLinkIndex_oneWay(ls, a, b) ==
  LET hits == {i \in DOMAIN ls : ls[i].sourceId = a /\ ls[i].targetId = b}
  IN  IF hits = {} THEN 0 ELSE CHOOSE i \in hits : \A j \in hits : i <= j

\* links.findIndex(...) of handleNodeClick; 0 stands for -1
FindLinkIndex(ls, a, b) ==
  LET hits == {i \in DOMAIN ls :
                 \/ (ls[i].sourceId = a /\ ls[i].targetId = b)
                 \/ (ls[i].sourceId = b /\ ls[i].targetId = a)}
  IN  IF hits = {} THEN 0 ELSE CHOOSE i \in hits : \A j \in hits : i <= j

\* the test of updateLinkStrength and deleteLink: id or reverseId is the selection
LinkMatches(l, selectedLink) ==
  \/ <<l.sourceId, l.targetId>> = selectedLink
  \/ <<l.targetId, l.sourceId>> = selectedLink

(***************************************************************************)
(* State.                                                                  *)
(***************************************************************************)
VARIABLES
  qstate,        \* engine: the quantum state of the qubit being worked on
  gateCount,     \* engine: gates applied since it was created or measured
  everMeasured,  \* engine: TRUE once a measurement has collapsed the state
  lastMeasure,   \* engine: input, draw and outcome of the measurement just made
  trail,         \* engine: the states held since it was created or measured
  gateLog,       \* engine: the gates applied since it was created or measured
  lastCall,      \* engine: how the last applyGate call ended
  bloch,         \* engine: the Bloch coordinates just read
  now,           \* Date.now(), in ms
  breaker,       \* breaker: the CircuitBreaker object's state
  cbOp,          \* breaker: the method called last
  cbRet,         \* breaker: what the last canMakeRequest returned
  lastFailAt,    \* breaker: Date.now() of the last recordFailure call
  consecFails,   \* breaker: failures recorded since the last success or reset
  halfOpenSucc,  \* breaker: successes recorded since half-open was entered
  cbFrom,        \* breaker: the state the breaker was in before the last call
  halfOpenAdmits, \* breaker: calls of canMakeRequest that returned true since the
                 \*          breaker went half-open, no outcome recorded since
  lastApiCall,        \* limiter: lastApiCallRef.current
  apiCallCount,       \* limiter: apiCallCountRef.current
  rateLimitWindow,    \* limiter: rateLimitWindowRef.current
  rateLimitCooldown,  \* limiter: the rateLimitCooldown state of App
  closureCooldown,    \* limiter: rateLimitCooldown as the memoized
                      \*          collapseWavefunction closed over it
  attempt,            \* limiter: the compute attempt just made
  watchStart,         \* limiter: start of the observed 60 s period
                      \*          (0 before it starts, -1 after it ends)
  watchCount,         \* limiter: calls admitted in the observed period
  nodes,           \* canvas: the nodes state of App
  links,           \* canvas: the links state of App
  selectedNodeId,  \* canvas: the selected node id, 0 for null
  selectedLinkId,  \* canvas: the selected link id, <<>> for null
  isCreating,      \* canvas: TRUE while the creation modal is open
  newNodeLabel,    \* canvas: the label typed, a sequence of characters
  errorMsg,        \* canvas: the errorMsg state, "" for null
  history,         \* canvas: the chat history
  nextId,          \* canvas: ids handed out so far by crypto.randomUUID()
  nodeOps,         \* canvas: gates applied and measurements made so far
  analytics,       \* logs: the Analytics object
  errorTracker,    \* logs: the ErrorTracker object
  trackCalls,      \* logs: calls of track made so far
  errorCalls,      \* logs: calls of logError made so far
  apiKeyConfigured,  \* compute: whether VITE_OPENROUTER_API_KEY is set
  isComputing,       \* compute: the isComputing state of App
  computePc,         \* compute: where collapseWavefunction stands: "idle",
                     \*          "fetching", "waiting" or "waiting429"
  retryCount,        \* compute: retryCount of the running request
  pendingDelay,      \* compute: ms of the timer the request is waiting on
  lastError,         \* compute: lastError of the running request
  request,           \* compute: record of the running or last request
  requestsStarted,   \* compute: requests admitted so far
  lastCheck,         \* health: lastCheck of the HealthChecker, NoCheck for null
  checkInterval,     \* health: checkInterval of the HealthChecker, 0 for null
  intervals,         \* health: ids of the browser's live intervals
  nextInterval,      \* health: intervals handed out by setInterval so far
  periodicChecks,    \* health: checks run from an interval callback so far
  stopped            \* health: stopPeriodicChecks was the last of start/stop

engineVars == <<qstate, gateCount, everMeasured, lastMeasure, trail, gateLog,
                lastCall, bloch>>

breakerVars == <<breaker, cbOp, cbRet, lastFailAt, consecFails, halfOpenSucc,
                 cbFrom, halfOpenAdmits>>

limiterVars == <<lastApiCall, apiCallCount, rateLimitWindow, rateLimitCooldown,
                 closureCooldown, attempt, watchStart, watchCount>>

canvasVars == <<nodes, links, selectedNodeId, selectedLinkId, isCreating,
                newNodeLabel, errorMsg, history, nextId, nodeOps>>

logVars == <<analytics, errorTracker, trackCalls, errorCalls>>

computeVars == <<apiKeyConfigured, isComputing, computePc, retryCount,
                 pendingDelay, lastError, request, requestsStarted>>

healthVars == <<lastCheck, checkInterval, intervals, nextInterval,
                periodicChecks, stopped>>

\* what the canvas handlers leave alone
nonCanvasVars == <<engineVars, now, breakerVars, limiterVars, logVars,
                   computeVars, healthVars>>

vars == <<engineVars, now, breakerVars, limiterVars, canvasVars, logVars,
          computeVars, healthVars>>

\* lastMeasure when the last operation was not a measurement
NoMeasure == [input |-> INITIAL_STATE, roll |-> -1, outcome |-> -1]

\* lastCall when the last operation was not an applyGate call
NoCall == [name |-> "", threw |-> "none", arithmetic |-> 0]

\* bloch when the last operation was not a read of the coordinates
NoBloch == [of |-> INITIAL_STATE, read |-> FALSE]

InitEngine ==
  /\ qstate = INITIAL_STATE
  /\ gateCount = 0
  /\ everMeasured = FALSE
  /\ lastMeasure = NoMeasure
  /\ trail = <<INITIAL_STATE>>
  /\ gateLog = <<>>
  /\ lastCall = NoCall
  /\ bloch = NoBloch

InitBreaker ==
  /\ breaker = BreakerInitial
  /\ cbOp = "none"
  /\ cbRet = FALSE
  /\ lastFailAt = 0
  /\ consecFails = 0
  /\ halfOpenSucc = 0
  /\ cbFrom = "none"
  /\ halfOpenAdmits = 0

\* attempt when no compute attempt was the last thing to happen
NoAttempt == [made |-> FALSE, at |-> 0, prevLast |-> 0, allowed |-> FALSE,
              message |-> NoMessage]

InitLimiter ==
  /\ lastApiCall = 0
  /\ apiCallCount = 0
  /\ rateLimitWindow = now
  /\ rateLimitCooldown = 0
  /\ closureCooldown = 0
  /\ attempt = NoAttempt
  /\ watchStart = 0
  /\ watchCount = 0

\* the message the mount effect leaves in the history
Greeting == [role |-> "model", kind |-> "greeting"]

\* the message 'WARNING: OpenRouter API key not configured. ...'
KeyWarning == [role |-> "model", kind |-> "warning"]

\* the setHistory calls of the mount effect, in the order they are made: an
\* updater function that appends, or a value that replaces
MountUpdates(keyConfigured) ==
  (IF ~keyConfigured THEN <<[op |-> "append", message |-> KeyWarning]>> ELSE <<>>)
    \o <<[op |-> "set", value |-> <<Greeting>>]>>

\* React works through the queued updates of a state in order
RECURSIVE ApplyUpdates(_, _)
ApplyUpdates(state, queue) ==
  IF queue = <<>> THEN state
  ELSE LET u == Head(queue)
       IN  ApplyUpdates(IF u.op = "append" THEN Append(state, u.message) ELSE u.value,
                        Tail(queue))

\* the history once the mount effect has run, from useState([])
MountHistory(keyConfigured) == ApplyUpdates(<<>>, MountUpdates(keyConfigured))

\* the empty string, as a label
EmptyLabel == <<>>

InitCanvas ==
  /\ newNodeLabel = EmptyLabel
  /\ nodes = <<>>
  /\ links = <<>>
  /\ selectedNodeId = 0
  /\ selectedLinkId = <<>>
  /\ isCreating = FALSE
  /\ errorMsg = ""
  /\ history = MountHistory(apiKeyConfigured)
  /\ nextId = 0
  /\ nodeOps = 0

InitLogs ==
  /\ analytics = AnalyticsInitial
  /\ errorTracker = ErrorTrackerInitial
  /\ trackCalls = 0
  /\ errorCalls = 0

\* request before any compute request was admitted; fetches counts the calls
\* of fetch the request has made
NoRequest == [status |-> "none", fetches |-> 0]

InitCompute ==
  /\ apiKeyConfigured \in BOOLEAN
  /\ isComputing = FALSE
  /\ computePc = "idle"
  /\ retryCount = 0
  /\ pendingDelay = 0
  /\ lastError = NoError
  /\ request = NoRequest
  /\ requestsStarted = 0

NoCheck == [status |-> "none"]

\* the HealthChecker as constructed
InitHealth ==
  /\ lastCheck = NoCheck
  /\ checkInterval = 0
  /\ intervals = {}
  /\ nextInterval = 0
  /\ periodicChecks = 0
  /\ stopped = FALSE

Init ==
  /\ InitCompute
  /\ InitEngine
  /\ now = StartTime
  /\ InitBreaker
  /\ InitLimiter
  /\ InitCanvas
  /\ InitLogs
  /\ InitHealth

(***************************************************************************)
(* Engine operations.                                                      *)
(***************************************************************************)
\* names outside the catalogue that applyGate is called with
OtherNames == {"h", "CNOT"}

\* applyGate called with a catalogue gate
ApplyGate(g) ==
  /\ gateCount < MaxGates
  /\ LET call == applyGateCall(qstate, g)
     IN  /\ call.threw = "none"
         /\ qstate' = call.value
         /\ lastCall' = [name |-> g, threw |-> call.threw,
                         arithmetic |-> call.arithmetic]
  /\ gateCount' = gateCount + 1
  /\ trail' = Append(trail, qstate')
  /\ gateLog' = Append(gateLog, g)
  /\ lastMeasure' = NoMeasure
  /\ bloch' = NoBloch
  /\ UNCHANGED <<healthVars, everMeasured, now, breakerVars, limiterVars, canvasVars, logVars,
                 computeVars>>

\* applyGate called with any other name: the call throws and the caller is
\* left with the state it had
ApplyOtherName(name) ==
  /\ LET call == applyGateCall(qstate, name)
     IN  /\ call.threw # "none"
         /\ lastCall' = [name |-> name, threw |-> call.threw,
                         arithmetic |-> call.arithmetic]
  /\ lastMeasure' = NoMeasure
  /\ bloch' = NoBloch
  /\ UNCHANGED <<healthVars, qstate, gateCount, everMeasured, trail, gateLog, now,
                 breakerVars, limiterVars, canvasVars, logVars,
                 computeVars>>

Measure(n) ==
  LET result == measure(qstate, n)
  IN  /\ qstate' = result.collapsedState
      /\ gateCount' = 0
      /\ everMeasured' = TRUE
      /\ lastMeasure' = [input |-> qstate, roll |-> n, outcome |-> result.outcome]
      /\ trail' = <<result.collapsedState>>
      /\ gateLog' = <<>>
      /\ lastCall' = NoCall
      /\ bloch' = NoBloch
      /\ UNCHANGED <<healthVars, now, breakerVars, limiterVars, canvasVars, logVars,
                 computeVars>>

\* the coordinates of the state are read, as on every render of its sphere
ReadBloch ==
  /\ BlochTabulated(qstate)
  /\ bloch' = [of |-> qstate, read |-> TRUE, at |-> getBlochCoordinates(qstate)]
  /\ lastMeasure' = NoMeasure
  /\ lastCall' = NoCall
  /\ UNCHANGED <<healthVars, qstate, gateCount, everMeasured, trail, gateLog, now,
                 breakerVars, limiterVars, canvasVars, logVars,
                 computeVars>>

NextEngine ==
  \/ \E g \in GateType : ApplyGate(g)
  \/ \E name \in OtherNames : ApplyOtherName(name)
  \/ \E n \in 0..(RollDen - 1) : Measure(n)
  \/ ReadBloch

SpecEngine == Init /\ [][NextEngine]_vars

(***************************************************************************)
(* Claims about the engine.                                                *)
(***************************************************************************)
\* |c|^2
NormSq(c) == magnitude(c).sqrtOf

\* C1: from the canonical zero state, after any sequence of catalogue gates
\* interleaved with measurement collapses, |alpha|^2 + |beta|^2 = 1.
C1_Normalized == RAdd(NormSq(qstate.alpha), NormSq(qstate.beta)) = R1

\* a superposition reached by gates applied after a collapse
C1_Witness ==
  /\ everMeasured
  /\ gateCount >= 2
  /\ getProbability(qstate) \notin {R0, R1}

\* C2: measuring the canonical zero state gives outcome 0 and the canonical
\* zero state whatever the draw; measuring the canonical one state gives
\* outcome 1 and the canonical one state whatever the draw.
C2_BasisMeasure ==
  lastMeasure.roll # -1 =>
    /\ lastMeasure.input = STATE_ZERO =>
         (lastMeasure.outcome = 0 /\ qstate = STATE_ZERO)
    /\ lastMeasure.input = STATE_ONE =>
         (lastMeasure.outcome = 1 /\ qstate = STATE_ONE)

\* the zero state measured with the smallest draw, u = 0
C2_Witness ==
  /\ lastMeasure.roll = 0
  /\ lastMeasure.input = STATE_ZERO
  /\ lastMeasure.outcome = 0

\* u < x for the draw u = n / RollDen, by cross-multiplication
DrawBelow(n, x) == RLess(Real(n, 0, 0), RMul(Real(RollDen, 0, 0), x))

\* C3: measure returns outcome 1 with the canonical one state exactly when
\* the draw is below probabilityOfOne of the measured state, and otherwise
\* outcome 0 with the canonical zero state.
C3_MeasureRule ==
  lastMeasure.roll # -1 =>
    IF DrawBelow(lastMeasure.roll, getProbability(lastMeasure.input))
    THEN lastMeasure.outcome = 1 /\ qstate = STATE_ONE
    ELSE lastMeasure.outcome = 0 /\ qstate = STATE_ZERO

\* a superposition that collapsed to one
C3_Witness ==
  /\ lastMeasure.roll # -1
  /\ getProbability(lastMeasure.input) \notin {R0, R1}
  /\ lastMeasure.outcome = 1
  /\ qstate = STATE_ONE

\* positions of the gate log where g was applied twice in a row
TwiceInARow(g) ==
  {i \in 1..(Len(gateLog) - 1) : gateLog[i] = g /\ gateLog[i + 1] = g}

\* C11: applying Pauli-X twice to a state returns that state, and applying
\* Pauli-Z twice to a state returns that state.
C11_PauliTwice ==
  \A g \in {"X", "Z"} : \A i \in TwiceInARow(g) : trail[i + 2] = trail[i]

\* X was applied twice to a state it changes, and Z twice to a state it changes
C11_Witness ==
  /\ \E i \in TwiceInARow("X") : trail[i + 1] # trail[i] /\ trail[i + 2] = trail[i]
  /\ \E j \in TwiceInARow("Z") : trail[j + 1] # trail[j] /\ trail[j + 2] = trail[j]

\* -c, i*c and r*c for a complex c and a real r
CNeg(c) == [r |-> RNeg(c.r), i |-> RNeg(c.i)]
TimesI(c) == [r |-> RNeg(c.i), i |-> c.r]
Scale(c, r) == [r |-> RMul(c.r, r), i |-> RMul(c.i, r)]

\* the product of the catalogue matrix of g with (alpha, beta), written out
Product(g, s) ==
  CASE g = "H" -> [alpha |-> Scale(add(s.alpha, s.beta), RInvSqrt2),
                   beta |-> Scale(add(s.alpha, CNeg(s.beta)), RInvSqrt2)]
    [] g = "X" -> [alpha |-> s.beta, beta |-> s.alpha]
    [] g = "Y" -> [alpha |-> CNeg(TimesI(s.beta)), beta |-> TimesI(s.alpha)]
    [] g = "Z" -> [alpha |-> s.alpha, beta |-> CNeg(s.beta)]
    [] g = "S" -> [alpha |-> s.alpha, beta |-> TimesI(s.beta)]
    [] g = "T" -> [alpha |-> s.alpha,
                   beta |-> Scale(add(s.beta, TimesI(s.beta)), RInvSqrt2)]

\* C12: applyGate returns the product of the gate's catalogue matrix with
\* (alpha, beta): X swaps the amplitudes, Z negates beta, S multiplies beta by
\* i, Y gives (-i*beta, i*alpha); X on the canonical zero state gives the
\* canonical one state and Y on it gives alpha = 0, beta = i.
C12_MatrixProduct ==
  /\ \A i \in 1..Len(gateLog) : trail[i + 1] = Product(gateLog[i], trail[i])
  /\ (gateLog = <<"X">> /\ trail[1] = STATE_ZERO) => qstate = STATE_ONE
  /\ (gateLog = <<"Y">> /\ trail[1] = STATE_ZERO) =>
       (qstate.alpha = ZERO /\ qstate.beta = I)

\* Y has just been applied to a state with two different non-zero amplitudes
C12_Witness ==
  /\ Len(gateLog) >= 2
  /\ gateLog[Len(gateLog)] = "Y"
  /\ LET before == trail[Len(gateLog)]
     IN  /\ before.alpha # ZERO
         /\ before.beta # ZERO
         /\ before.alpha # before.beta
         /\ qstate.alpha = CNeg(TimesI(before.beta))
         /\ qstate.beta = TimesI(before.alpha)

\* C13: applying Z, S or T to a state leaves probabilityOfOne unchanged, and
\* zero state -> H -> Z has probability 1/2 of outcome one.
C13_PhaseKeepsProbability ==
  /\ \A i \in 1..Len(gateLog) :
       gateLog[i] \in {"Z", "S", "T"} =>
         getProbability(trail[i + 1]) = getProbability(trail[i])
  /\ (gateLog = <<"H", "Z">> /\ trail[1] = STATE_ZERO) =>
       getProbability(qstate) = Real(1, 0, 1)

\* Z has just been applied to the zero state after H, and changed it
C13_Witness ==
  /\ gateLog = <<"H", "Z">>
  /\ trail[1] = STATE_ZERO
  /\ trail[3] # trail[2]
  /\ getProbability(qstate) = Real(1, 0, 1)

C20_BlochCoordinates ==
  bloch.read =>
    /\ bloch.of = STATE_ZERO => bloch.at = [x |-> R0, y |-> R0, z |-> R1]
    /\ bloch.of = STATE_ONE => bloch.at = [x |-> R0, y |-> R0, z |-> RNeg1]
    /\ (gateLog = <<"H">> /\ trail[1] = STATE_ZERO) =>
         /\ bloch.at.z = R0
         /\ RAdd(RMul(bloch.at.x, bloch.at.x), RMul(bloch.at.y, bloch.at.y)) = R1

\* the coordinates of the zero state after a Hadamard have just been read
C20_Witness ==
  /\ bloch.read
  /\ gateLog = <<"H">>
  /\ trail[1] = STATE_ZERO
  /\ bloch.of = qstate
  /\ bloch.at.z = R0

(***************************************************************************)
(* Circuit breaker operations.                                             *)
(***************************************************************************)
\* the clock moves in steps of a third of the timeout
BreakerTickMs == timeout \div 3

BreakerTick ==
  /\ now < StartTime + MaxBreakerTicks * BreakerTickMs
  /\ now' = now + BreakerTickMs
  /\ UNCHANGED <<healthVars, engineVars, breakerVars, limiterVars, canvasVars, logVars,
                 computeVars>>

\* the calls that returned true since the breaker went half-open, after a call
\* of canMakeRequest that found it in state from and left it in state to
AdmitsAfter(from, to, admits) ==
  IF to = "half-open"
  THEN (IF from = "half-open" THEN admits ELSE 0) + 1
  ELSE 0

CanMakeRequest ==
  LET res == canMakeRequest(breaker, now)
  IN  /\ halfOpenAdmits < MaxAdmits
      /\ breaker' = res.b
      /\ cbOp' = "canMakeRequest"
      /\ cbRet' = res.ret
      /\ cbFrom' = breaker.state
      /\ halfOpenAdmits' = AdmitsAfter(breaker.state, res.b.state, halfOpenAdmits)
      /\ halfOpenSucc' = IF breaker.state = "half-open" THEN halfOpenSucc ELSE 0
      /\ UNCHANGED <<healthVars, engineVars, limiterVars, canvasVars, logVars, computeVars, now, lastFailAt, consecFails>>

RecordSuccess ==
  /\ breaker' = recordSuccess(breaker)
  /\ cbOp' = "recordSuccess"
  /\ cbFrom' = breaker.state
  /\ halfOpenAdmits' = 0
  /\ consecFails' = 0
  /\ halfOpenSucc' = IF breaker.state = "half-open" THEN halfOpenSucc + 1 ELSE 0
  /\ UNCHANGED <<healthVars, engineVars, limiterVars, canvasVars, logVars, computeVars, now, cbRet, lastFailAt>>

RecordFailure ==
  /\ breaker.failures < MaxFailures
  /\ breaker' = recordFailure(breaker, now)
  /\ cbOp' = "recordFailure"
  /\ cbFrom' = breaker.state
  /\ halfOpenAdmits' = 0
  /\ lastFailAt' = now
  /\ consecFails' = consecFails + 1
  /\ halfOpenSucc' = 0
  /\ UNCHANGED <<healthVars, engineVars, limiterVars, canvasVars, logVars, computeVars, now, cbRet>>

ResetBreaker ==
  /\ breaker' = reset(breaker)
  /\ cbOp' = "reset"
  /\ cbFrom' = breaker.state
  /\ halfOpenAdmits' = 0
  /\ consecFails' = 0
  /\ halfOpenSucc' = 0
  /\ UNCHANGED <<healthVars, engineVars, limiterVars, canvasVars, logVars, computeVars, now, cbRet, lastFailAt>>

NextBreaker ==
  \/ BreakerTick
  \/ CanMakeRequest
  \/ RecordSuccess
  \/ RecordFailure
  \/ ResetBreaker

SpecBreaker == Init /\ [][NextBreaker]_vars

(***************************************************************************)
(* Claims about the circuit breaker.                                       *)
(***************************************************************************)
\* C4: a closed breaker opens exactly when the 5th consecutive failure is
\* recorded, and a success recorded while closed resets the failure count.
C4_OpensAtFifthFailure ==
  [][breaker.state = "closed" =>
       /\ (breaker'.state = "open") <=>
            (RecordFailure /\ consecFails = 4 /\ consecFails' = 5)
       /\ RecordSuccess => (breaker'.failures = 0)]_vars

\* the 5th consecutive failure has just opened the breaker
C4_Witness ==
  /\ cbOp = "recordFailure"
  /\ consecFails = 5
  /\ breaker.state = "open"
  /\ breaker.failures = 5

\* C5: while open, canMakeRequest returns false when called within 60 s of
\* the last recorded failure; called more than 60 s after it, it returns true
\* and moves the breaker to half-open.
C5_OpenTimeout ==
  [][(breaker.state = "open" /\ CanMakeRequest) =>
       IF now - lastFailAt <= 60000
       THEN cbRet' = FALSE /\ breaker'.state = "open"
       ELSE cbRet' = TRUE /\ breaker'.state = "half-open"]_vars

\* a call made more than 60 s after the failure has moved the breaker to half-open
C5_Witness ==
  /\ cbOp = "canMakeRequest"
  /\ cbRet = TRUE
  /\ breaker.state = "half-open"
  /\ now - lastFailAt > 60000

\* C6: a half-open breaker closes (other than by an explicit reset()) exactly
\* when the 2nd success since it entered half-open is recorded, and on closing
\* the failure count and the success count are both 0.
C6_ClosesAfterTwoSuccesses ==
  [][(breaker.state = "half-open" /\ ~ResetBreaker) =>
       /\ (breaker'.state = "closed") <=>
            (RecordSuccess /\ halfOpenSucc = 1 /\ halfOpenSucc' = 2)
       /\ (breaker'.state = "closed") =>
            (breaker'.failures = 0 /\ breaker'.successCount = 0)]_vars

\* the 2nd success has just closed a breaker that had failures on record
C6_Witness ==
  /\ cbOp = "recordSuccess"
  /\ halfOpenSucc = 2
  /\ breaker.state = "closed"
  /\ breaker.failures = 0
  /\ lastFailAt > 0

\* times after a failure, in ms, at which a request is tried
ProbeDelays == {0, 1, timeout - 1, timeout, timeout + 1, 2 * timeout}

\* C22: a failure recorded while the breaker is half-open moves it back to
\* open with the success count 0, and requests are then blocked for 60 s
\* counted from that failure: a request is refused up to 60 s after it and
\* let through later.
C22_HalfOpenFailureReopens ==
  [][/\ (RecordFailure /\ breaker.state = "half-open") =>
          /\ breaker'.state = "open"
          /\ breaker'.successCount = 0
          /\ \A d \in ProbeDelays :
               canMakeRequest(breaker', now + d).ret <=> (d > timeout)
     /\ (CanMakeRequest /\ cbOp = "recordFailure" /\ cbFrom = "half-open") =>
          (cbRet' <=> (now - lastFailAt > timeout))]_vars

\* 60 s after a failure that was recorded in half-open, after a success there,
\* the breaker is still open
C22_Witness ==
  /\ cbOp = "recordFailure"
  /\ cbFrom = "half-open"
  /\ breaker.state = "open"
  /\ breaker.successCount = 0
  /\ consecFails = 1
  /\ now - lastFailAt = timeout

\* C23: between entering half-open and the next recordSuccess or recordFailure,
\* canMakeRequest returns true for only one request.
C23_OneTestRequest == halfOpenAdmits <= 1

\* C26: a closed breaker has fewer than 5 failures on record, the success count
\* is 0 whenever the breaker is not half-open, and it is below 2 whenever the
\* breaker is half-open, whatever calls of canMakeRequest, recordSuccess,
\* recordFailure and reset were made.
C26_BreakerInvariant ==
  /\ breaker.state \in {"closed", "open", "half-open"}
  /\ breaker.state = "closed" => breaker.failures < failureThreshold
  /\ breaker.state # "half-open" => breaker.successCount = 0
  /\ breaker.state = "half-open" => breaker.successCount < halfOpenSuccessThreshold

\* half-open for the second time, with one success and six failures on record
C26_Witness ==
  /\ breaker.state = "half-open"
  /\ breaker.successCount = 1
  /\ breaker.failures = failureThreshold + 1

(***************************************************************************)
(* Rate limiter operations.                                                *)
(***************************************************************************)
\* period of the cooldown timer; the limiter's clock moves in these steps
CooldownIntervalMs == 1000

\* the interval callback of the cooldown timer, run at time t; it is armed
\* only while rateLimitCooldown > 0
CooldownTimer(cd, wstart, count, t) ==
  IF cd > 0
  THEN LET newValue == cd - 1
       IN  IF newValue <= 0
           THEN [cooldown |-> 0, windowStart |-> t, count |-> 0]
           ELSE [cooldown |-> newValue, windowStart |-> wstart, count |-> count]
  ELSE [cooldown |-> cd, windowStart |-> wstart, count |-> count]

\* n timer periods pass, starting at time t
RECURSIVE Elapsed(_, _, _, _, _)
Elapsed(n, cd, wstart, count, t) ==
  IF n = 0
  THEN [cooldown |-> cd, windowStart |-> wstart, count |-> count]
  ELSE LET r == CooldownTimer(cd, wstart, count, t + CooldownIntervalMs)
       IN  Elapsed(n - 1, r.cooldown, r.windowStart, r.count, t + CooldownIntervalMs)

\* n * 1000 ms pass with no user action
LimiterTick(n) ==
  /\ now < StartTime + MaxLimiterTicks * CooldownIntervalMs
  /\ now' = now + n * CooldownIntervalMs
  /\ LET r == Elapsed(n, rateLimitCooldown, rateLimitWindow, apiCallCount, now)
     IN  /\ rateLimitCooldown' = r.cooldown
         /\ rateLimitWindow' = r.windowStart
         /\ apiCallCount' = r.count
  /\ attempt' = NoAttempt
  /\ IF watchStart > 0 /\ now' - watchStart >= 60000
     THEN watchStart' = -1 /\ watchCount' = 0
     ELSE UNCHANGED <<watchStart, watchCount>>
  /\ UNCHANGED <<healthVars, engineVars, breakerVars, canvasVars, logVars, computeVars,
                 lastApiCall, closureCooldown>>

\* nodes or links change: collapseWavefunction is memoized again and closes
\* over the rateLimitCooldown of this render
NodesOrLinksChanged ==
  /\ closureCooldown # rateLimitCooldown
  /\ closureCooldown' = rateLimitCooldown
  /\ attempt' = NoAttempt
  /\ UNCHANGED <<healthVars, engineVars, now, breakerVars, canvasVars, logVars, computeVars,
                 lastApiCall,
                 apiCallCount, rateLimitWindow, rateLimitCooldown, watchStart,
                 watchCount>>

\* a click on the compute button, enabled while rateLimitCooldown = 0, whose
\* API call (when admitted) is answered successfully.  observe says whether
\* the observed 60 s period starts with this call.
ComputeAttempt(observe) ==
  /\ rateLimitCooldown = 0
  /\ apiKeyConfigured
  /\ LET gate == canMakeRequest(breaker, now)
         res == checkRateLimit(now, lastApiCall, apiCallCount, rateLimitWindow,
                               closureCooldown)
         ws == IF watchStart = 0 /\ observe THEN now ELSE watchStart
     IN  /\ cbRet' = gate.ret
         /\ IF ~gate.ret
            THEN /\ breaker' = gate.b
                 /\ cbOp' = "canMakeRequest"
                 /\ cbFrom' = breaker.state
                 /\ halfOpenAdmits' =
                      AdmitsAfter(breaker.state, gate.b.state, halfOpenAdmits)
                 /\ attempt' = NoAttempt
                 /\ UNCHANGED <<lastApiCall, apiCallCount, rateLimitWindow,
                                rateLimitCooldown, watchStart, watchCount,
                                consecFails>>
            ELSE /\ attempt' = [made |-> TRUE, at |-> now, prevLast |-> lastApiCall,
                                allowed |-> res.allowed, message |-> res.message]
                 /\ rateLimitWindow' = res.windowStart
                 /\ rateLimitCooldown' =
                      IF res.setCooldown = -1 THEN rateLimitCooldown
                      ELSE res.setCooldown
                 /\ IF res.allowed
                    THEN /\ lastApiCall' = now
                         /\ apiCallCount' = res.count + 1
                         /\ breaker' = recordSuccess(gate.b)
                         /\ cbOp' = "recordSuccess"
                         /\ cbFrom' = gate.b.state
                         /\ halfOpenAdmits' = 0
                         /\ consecFails' = 0
                         /\ watchStart' = ws
                         /\ watchCount' = IF ws > 0 THEN watchCount + 1
                                          ELSE watchCount
                    ELSE /\ apiCallCount' = res.count
                         /\ breaker' = gate.b
                         /\ cbOp' = "canMakeRequest"
                         /\ cbFrom' = breaker.state
                         /\ halfOpenAdmits' =
                              AdmitsAfter(breaker.state, gate.b.state, halfOpenAdmits)
                         /\ UNCHANGED <<lastApiCall, watchStart, watchCount,
                                        consecFails>>
  /\ UNCHANGED <<healthVars, engineVars, canvasVars, logVars, computeVars, now, lastFailAt,
                 halfOpenSucc,
                 closureCooldown>>

\* the limiter followed second by second
NextLimiter ==
  \/ LimiterTick(1)
  \/ NodesOrLinksChanged
  \/ ComputeAttempt(FALSE)

SpecLimiter == Init /\ [][NextLimiter]_vars

\* the limiter followed in steps of the minimum spacing, with one 60 s period
\* observed: it starts at an admitted call chosen freely
NextObserved ==
  \/ LimiterTick(MIN_TIME_BETWEEN_CALLS \div CooldownIntervalMs)
  \/ NodesOrLinksChanged
  \/ \E observe \in BOOLEAN : ComputeAttempt(observe)

SpecObserved == Init /\ [][NextObserved]_vars

(***************************************************************************)
(* Claims about the rate limiter.                                          *)
(***************************************************************************)
\* C7: the limiter admits no more than 20 calls within any 60-second period.
C7_AtMost20PerMinute == watchCount <= 20

\* the attempt was refused by the minimum-spacing check
RejectedForSpacing(a) ==
  ~a.allowed /\ a.message.words = SpacingMessage(0).words

\* the message contains the word 'wait'
MentionsWait(m) == \E i \in DOMAIN m.words : m.words[i] = "wait"

CountValues == 0..(MAX_CALLS_PER_MINUTE + 1)
CooldownValues == 0..MaxCooldown

C10_FirstCallAllowed ==
  lastApiCall = 0 =>
    \A c \in CountValues, cd \in CooldownValues :
      checkRateLimit(now, lastApiCall, c, rateLimitWindow, cd).allowed

\* the first attempt of the session has just been admitted
C10_Witness ==
  /\ attempt.made
  /\ attempt.prevLast = 0
  /\ attempt.allowed
  /\ lastApiCall = now
  /\ apiCallCount = 1

(***************************************************************************)
(* Canvas operations.  The analytics calls of the handlers write only to   *)
(* the analytics log, which is followed in SpecLogs.                       *)
(***************************************************************************)
\* the node the controls panel is open for, if any (selectedNodeObj && !isCreating)
NodePanel == IF isCreating THEN {} ELSE FindNode(nodes, selectedNodeId)

\* the link the editing panel is open for, if any (getSelectedLinkObj)
LinkPanel ==
  IF selectedLinkId = <<>> THEN {}
  ELSE {links[i] : i \in {j \in DOMAIN links : LinkMatches(links[j], selectedLinkId)}}

\* a click on the background of the canvas
HandleCanvasClick ==
  /\ selectedNodeId' = 0
  /\ selectedLinkId' = <<>>
  /\ isCreating' = TRUE
  /\ newNodeLabel' = EmptyLabel
  /\ errorMsg' = ""
  /\ UNCHANGED <<nodes, links, history, nextId, nodeOps, nonCanvasVars>>

\* what is typed into, or pasted into, the label field
TypedLabels ==
  {Chars(" ", 3),
   <<" ">> \o Chars("a", MAX_LABEL_LENGTH - 2) \o <<" ">>,
   Chars("a", MAX_LABEL_LENGTH + 1)}

\* onChange of the label field
TypeLabel(value) ==
  /\ isCreating
  /\ IF Len(value) <= MAX_LABEL_LENGTH
     THEN newNodeLabel' = value /\ errorMsg' = ""
     ELSE UNCHANGED <<newNodeLabel, errorMsg>>
  /\ UNCHANGED <<nodes, links, selectedNodeId, selectedLinkId, isCreating,
                 history, nextId, nodeOps, nonCanvasVars>>

\* the cancel button of the creation modal
CancelCreate ==
  /\ isCreating
  /\ isCreating' = FALSE
  /\ UNCHANGED <<nodes, links, selectedNodeId, selectedLinkId, newNodeLabel,
                 errorMsg, history, nextId, nodeOps, nonCanvasVars>>

\* createNode without its test of the number of nodes
createNode_noLimit(idLimit) ==
  /\ isCreating
  /\ LET label == Trim(newNodeLabel)
     IN  IF label = <<>>
         THEN /\ errorMsg' = "Identity cannot be void."
              /\ UNCHANGED <<nodes, isCreating, nextId>>
         ELSE IF Len(label) > MAX_LABEL_LENGTH
         THEN /\ errorMsg' = "Identity too complex (max {MAX_LABEL_LENGTH} chars)."
              /\ UNCHANGED <<nodes, isCreating, nextId>>
         ELSE /\ nextId < idLimit
              /\ nextId' = nextId + 1
              /\ nodes' = Append(nodes, [id |-> nextId + 1, label |-> label,
                                         state |-> INITIAL_STATE])
              /\ isCreating' = FALSE
              /\ errorMsg' = ""
  /\ UNCHANGED <<links, selectedNodeId, selectedLinkId, newNodeLabel, history,
                 nodeOps, nonCanvasVars>>

\* createNode; crypto.randomUUID() gives the next of the ids 1..idLimit
createNode(idLimit) ==
  /\ isCreating
  /\ LET label == Trim(newNodeLabel)
     IN  IF label = <<>>
         THEN /\ errorMsg' = "Identity cannot be void."
              /\ UNCHANGED <<nodes, isCreating, nextId>>
         ELSE IF Len(label) > MAX_LABEL_LENGTH
         THEN /\ errorMsg' = "Identity too complex (max {MAX_LABEL_LENGTH} chars)."
              /\ UNCHANGED <<nodes, isCreating, nextId>>
         ELSE IF Len(nodes) >= MAX_NODES
         THEN /\ errorMsg' = "Universe saturation reached (Max nodes)."
              /\ UNCHANGED <<nodes, isCreating, nextId>>
         ELSE /\ nextId < idLimit
              /\ nextId' = nextId + 1
              /\ nodes' = Append(nodes, [id |-> nextId + 1, label |-> label,
                                         state |-> INITIAL_STATE])
              /\ isCreating' = FALSE
              /\ errorMsg' = ""
  /\ UNCHANGED <<links, selectedNodeId, selectedLinkId, newNodeLabel, history,
                 nodeOps, nonCanvasVars>>

\* submission of the creation form
CreateNode == createNode(MaxCreated)

\* deleteNode without its setSelectedNodeId(null)
DeleteNode_keepSelection ==
  \E node \in NodePanel :
    LET keepNode(n) == n.id # node.id
        keepLink(l) == l.sourceId # node.id /\ l.targetId # node.id
    IN  /\ nodes' = FilterSeq(keepNode, nodes)
        /\ links' = FilterSeq(keepLink, links)
        /\ UNCHANGED <<selectedNodeId, selectedLinkId, isCreating, newNodeLabel,
                       errorMsg, history, nextId, nodeOps, nonCanvasVars>>

\* the delete button of the node controls panel
DeleteNode ==
  \E node \in NodePanel :
    LET keepNode(n) == n.id # node.id
        keepLink(l) == l.sourceId # node.id /\ l.targetId # node.id
    IN  /\ nodes' = FilterSeq(keepNode, nodes)
        /\ links' = FilterSeq(keepLink, links)
        /\ selectedNodeId' = 0
        /\ UNCHANGED <<selectedLinkId, isCreating, newNodeLabel, errorMsg, history,
                       nextId, nodeOps, nonCanvasVars>>

\* a gate button of the node controls panel
ApplyNodeGate(gate) ==
  /\ NodePanel # {}
  /\ nodeOps < MaxNodeOps
  /\ nodeOps' = nodeOps + 1
  /\ nodes' = IF selectedNodeId = 0 THEN nodes
              ELSE applyNodeGate(nodes, selectedNodeId, gate)
  /\ UNCHANGED <<links, selectedNodeId, selectedLinkId, isCreating, newNodeLabel,
                 errorMsg, history, nextId, nonCanvasVars>>

\* the measure button of the node controls panel; n is the numerator of the draw
MeasureNode(n) ==
  /\ NodePanel # {}
  /\ nodeOps < MaxNodeOps
  /\ nodeOps' = nodeOps + 1
  /\ IF selectedNodeId = 0 \/ FindNode(nodes, selectedNodeId) = {}
     THEN UNCHANGED <<nodes, history>>
     ELSE LET node == CHOOSE x \in FindNode(nodes, selectedNodeId) : TRUE
              result == measure(node.state, n)
          IN  /\ nodes' = setCollapsed(nodes, selectedNodeId, result.collapsedState)
              /\ history' = Append(history, [role |-> "user", kind |-> "collapse",
                                             outcome |-> result.outcome])
  /\ UNCHANGED <<links, selectedNodeId, selectedLinkId, isCreating, newNodeLabel,
                 errorMsg, nextId, nonCanvasVars>>

\* a click on the node with this id
HandleNodeClick(id) ==
  /\ FindNode(nodes, id) # {}
  /\ isCreating' = FALSE
  /\ LET prevSelected == selectedNodeId
         existingLinkIndex == FindLinkIndex(links, prevSelected, id)
     IN  IF prevSelected = 0
         THEN /\ selectedNodeId' = id
              /\ selectedLinkId' = <<>>
              /\ UNCHANGED links
         ELSE IF prevSelected = id
         THEN /\ selectedNodeId' = 0
              /\ selectedLinkId' = <<>>
              /\ UNCHANGED links
         ELSE IF existingLinkIndex = 0
         THEN /\ links' = Append(links, [sourceId |-> prevSelected, targetId |-> id,
                                         strength |-> 50])
              /\ selectedNodeId' = 0
              /\ selectedLinkId' = <<>>
         ELSE /\ selectedLinkId' = <<links[existingLinkIndex].sourceId,
                                     links[existingLinkIndex].targetId>>
              /\ selectedNodeId' = 0
              /\ UNCHANGED links
  /\ UNCHANGED <<nodes, newNodeLabel, errorMsg, history, nextId, nodeOps,
                 nonCanvasVars>>

\* a click on a drawn link; a link is drawn when both its nodes are found
HandleLinkClick(i) ==
  /\ i \in DOMAIN links
  /\ FindNode(nodes, links[i].sourceId) # {}
  /\ FindNode(nodes, links[i].targetId) # {}
  /\ isCreating' = FALSE
  /\ selectedNodeId' = 0
  /\ selectedLinkId' = <<links[i].sourceId, links[i].targetId>>
  /\ UNCHANGED <<nodes, links, newNodeLabel, errorMsg, history, nextId, nodeOps,
                 nonCanvasVars>>

\* the close button of the link editing panel
CloseLinkPanel ==
  /\ LinkPanel # {}
  /\ selectedLinkId' = <<>>
  /\ UNCHANGED <<nodes, links, selectedNodeId, isCreating, newNodeLabel, errorMsg,
                 history, nextId, nodeOps, nonCanvasVars>>

\* positions of the strength slider, in hundredths
SliderValues == {100}

\* the slider of the link editing panel
UpdateLinkStrength(val) ==
  /\ LinkPanel # {}
  /\ LET f(l) == IF LinkMatches(l, selectedLinkId)
                 THEN [l EXCEPT !.strength = val]
                 ELSE l
     IN  links' = IF selectedLinkId = <<>> THEN links ELSE MapSeq(f, links)
  /\ UNCHANGED <<nodes, selectedNodeId, selectedLinkId, isCreating, newNodeLabel,
                 errorMsg, history, nextId, nodeOps, nonCanvasVars>>

\* the sever button of the link editing panel
DeleteLink ==
  /\ LinkPanel # {}
  /\ LET keep(l) == ~LinkMatches(l, selectedLinkId)
     IN  IF selectedLinkId = <<>>
         THEN UNCHANGED <<links, selectedLinkId>>
         ELSE links' = FilterSeq(keep, links) /\ selectedLinkId' = <<>>
  /\ UNCHANGED <<nodes, selectedNodeId, isCreating, newNodeLabel, errorMsg,
                 history, nextId, nodeOps, nonCanvasVars>>

\* the reset button, confirmed
ClearAll ==
  /\ Len(history) < MaxHistory
  /\ nodes' = <<>>
  /\ links' = <<>>
  /\ selectedNodeId' = 0
  /\ selectedLinkId' = <<>>
  /\ history' = Append(history, [role |-> "model", kind |-> "purged"])
  /\ UNCHANGED <<isCreating, newNodeLabel, errorMsg, nextId, nodeOps,
                 nonCanvasVars>>

NextCanvas ==
  \/ HandleCanvasClick
  \/ \E value \in TypedLabels : TypeLabel(value)
  \/ CancelCreate
  \/ CreateNode
  \/ DeleteNode
  \/ \E gate \in GateType : ApplyNodeGate(gate)
  \/ \E n \in 0..(RollDen - 1) : MeasureNode(n)
  \/ \E id \in 1..MaxCreated : HandleNodeClick(id)
  \/ \E i \in 1..MaxCreated * MaxCreated : HandleLinkClick(i)
  \/ CloseLinkPanel
  \/ \E val \in SliderValues : UpdateLinkStrength(val)
  \/ DeleteLink
  \/ ClearAll

SpecCanvas == Init /\ [][NextCanvas]_vars

FillLabels == {Chars(" ", 3), Chars("a", MAX_LABEL_LENGTH), Chars("a", MAX_LABEL_LENGTH + 1)}

CreateNodeFill == createNode(MaxFilled)

NextFill ==
  \/ HandleCanvasClick
  \/ \E value \in FillLabels : TypeLabel(value)
  \/ CancelCreate
  \/ CreateNodeFill
  \/ ClearAll

SpecFill == Init /\ [][NextFill]_vars

\* the rules of the universe: at most MAX_NODES nodes, every label non-empty
\* after trimming and at most MAX_LABEL_LENGTH characters long
NodesWithinLimits(ns) ==
  /\ Len(ns) <= MAX_NODES
  /\ \A i \in DOMAIN ns :
       /\ Trim(ns[i].label) # <<>>
       /\ Len(ns[i].label) <= MAX_LABEL_LENGTH

\* the submission would break a rule: blank label, long label or full universe
WouldViolate ==
  \/ Trim(newNodeLabel) = <<>>
  \/ Len(Trim(newNodeLabel)) > MAX_LABEL_LENGTH
  \/ Len(nodes) >= MAX_NODES

\* C21: the universe holds at most 20 nodes and every node's label is
\* non-empty after trimming and at most 20 characters long; a createNode
\* submission that would break either rule leaves the node list unchanged
\* and sets an error message.
C21_NodeLimits ==
  [][/\ NodesWithinLimits(nodes)
     /\ NodesWithinLimits(nodes')
     /\ (CreateNodeFill /\ WouldViolate) => (nodes' = nodes /\ errorMsg' # "")]_vars

\* the form was submitted while the universe held 20 nodes
C21_Witness ==
  /\ Len(nodes) = MAX_NODES
  /\ isCreating
  /\ Trim(newNodeLabel) # <<>>
  /\ errorMsg = "Universe saturation reached (Max nodes)."

(***************************************************************************)
(* Links and selection: the handlers that create, click, edit and delete   *)
(* nodes and links, without the gates and measurements, which leave links  *)
(* and selection alone.                                                    *)
(***************************************************************************)
CreateNodeLinked == createNode(MaxLinked)

NextLinks ==
  \/ HandleCanvasClick
  \/ \E value \in TypedLabels : TypeLabel(value)
  \/ CancelCreate
  \/ CreateNodeLinked
  \/ DeleteNode
  \/ \E id \in 1..MaxLinked : HandleNodeClick(id)
  \/ \E i \in 1..MaxLinked : HandleLinkClick(i)
  \/ CloseLinkPanel
  \/ \E val \in SliderValues : UpdateLinkStrength(val)
  \/ DeleteLink
  \/ ClearAll

SpecLinks == Init /\ [][NextLinks]_vars

NodeExists(id) == FindNode(nodes, id) # {}

\* the unordered pair of nodes a link joins
Ends(l) == {l.sourceId, l.targetId}

\* C28: every entanglement link joins two distinct nodes that both exist, and
\* there is at most one link between any unordered pair of nodes, whatever
\* nodes were created, clicked and deleted and links edited and deleted, and
\* after a reset.
C28_LinksValid ==
  /\ \A i \in DOMAIN links :
       /\ links[i].sourceId # links[i].targetId
       /\ NodeExists(links[i].sourceId)
       /\ NodeExists(links[i].targetId)
  /\ \A i, j \in DOMAIN links : Ends(links[i]) = Ends(links[j]) => i = j

\* of three nodes, all linked to one another, one was deleted: the link of the
\* other two is left, and it was then selected by clicking its two nodes
C28_Witness ==
  /\ nextId = 3
  /\ Len(nodes) = 2
  /\ Len(links) = 1
  /\ links[1].strength = 100
  /\ selectedLinkId = <<links[1].sourceId, links[1].targetId>>
  /\ Ends(links[1]) = {nodes[1].id, nodes[2].id}

\* C29: a node and a link are never selected at the same time, a selected
\* node id refers to an existing node and a selected link id to an existing
\* link, whatever UI operations were made.
C29_SelectionValid ==
  /\ ~(selectedNodeId # 0 /\ selectedLinkId # <<>>)
  /\ selectedNodeId # 0 => NodeExists(selectedNodeId)
  /\ selectedLinkId # <<>> =>
       \E i \in DOMAIN links : selectedLinkId = <<links[i].sourceId, links[i].targetId>>

\* a node is selected after the node it was linked to, and the link with it,
\* were deleted
C29_Witness ==
  /\ nextId = 2
  /\ Len(nodes) = 1
  /\ links = <<>>
  /\ selectedNodeId = nodes[1].id
  /\ selectedLinkId = <<>>
  /\ ~isCreating

(***************************************************************************)
(* Log operations.  The program calls track and logError only; it never    *)
(* calls clearEvents, clearErrors, disable or enable.                      *)
(***************************************************************************)
\* a call of analytics.track, directly or through one of the track* methods
Track ==
  /\ trackCalls < MaxTrackCalls
  /\ trackCalls' = trackCalls + 1
  /\ analytics' = track(analytics, [call |-> trackCalls + 1])
  /\ UNCHANGED <<healthVars, engineVars, now, breakerVars, limiterVars, canvasVars,
                 computeVars, errorTracker, errorCalls>>

\* a call of errorTracker.logError
LogError ==
  /\ errorCalls < MaxErrorCalls
  /\ errorCalls' = errorCalls + 1
  /\ errorTracker' = logError(errorTracker, [call |-> errorCalls + 1])
  /\ UNCHANGED <<healthVars, engineVars, now, breakerVars, limiterVars, canvasVars,
                 computeVars, analytics, trackCalls>>

NextLogs ==
  \/ Track
  \/ LogError

SpecLogs == Init /\ [][NextLogs]_vars

(***************************************************************************)
(* Claims about the logs.                                                  *)
(***************************************************************************)
\* log holds the entries of the last min(made, cap) of the calls made, oldest first
HoldsMostRecent(log, made, cap) ==
  /\ Len(log) = (IF made < cap THEN made ELSE cap)
  /\ \A i \in 1..Len(log) : log[i].call = made - Len(log) + i

\* C16: after any sequence of track calls the analytics log holds at most
\* 100 events, after any sequence of logError calls the error log holds at
\* most 50 errors, and each log holds exactly the most recent entries in
\* arrival order, the oldest being the one evicted.
C16_LogCaps ==
  /\ Len(analytics.events) <= 100
  /\ Len(errorTracker.errors) <= 50
  /\ HoldsMostRecent(analytics.events, trackCalls, 100)
  /\ HoldsMostRecent(errorTracker.errors, errorCalls, 50)

\* both logs are full and have each evicted their two oldest entries
C16_Witness ==
  /\ trackCalls = 102
  /\ Len(analytics.events) = 100
  /\ analytics.events[1].call = 3
  /\ errorCalls = 52
  /\ Len(errorTracker.errors) = 50
  /\ errorTracker.errors[1].call = 3

(***************************************************************************)
(* Compute requests: collapseWavefunction run as a process.  A request is  *)
(* started by a click on the compute button while the universe holds       *)
(* nodes; every await of the function ends a step.                         *)
(***************************************************************************)
\* time a response takes to arrive, and time after which fetch is aborted
ResponseMs == 1000
AbortMs == 20000

\* values of the Retry-After header, in seconds; -1 when it is absent
RetryAfterValues == {-1, 40}

\* error messages of response bodies
ServerMessages ==
  {<<"Internal", "server", "error">>, <<"Upstream", "error", "402">>,
   <<"No", "endpoints", "found">>}

\* what a call of fetch can end with
Responses ==
  {Rejected(NetworkError), Rejected(AbortError)}
    \cup {Http(200, -1, <<>>, valid) : valid \in BOOLEAN}
    \cup {Http(429, ra, <<"Rate", "limited">>, FALSE) : ra \in RetryAfterValues}
    \cup {Http(401, -1, <<"Unauthorized">>, FALSE),
          Http(402, -1, <<"Payment", "required">>, FALSE)}
    \cup {Http(500, -1, m, FALSE) : m \in ServerMessages}

\* the API is down: every call runs into the request timeout
DownResponses == {Rejected(AbortError)}

\* what a call of fetch can end with in the n-th compute request
ResponsesFor(n) == IF n <= MaxRequests THEN Responses ELSE DownResponses

\* the click on the compute button: the breaker and rate-limit checks, and
\* for an admitted request the bookkeeping up to the first fetch
ComputeClick ==
  /\ ~isComputing
  /\ rateLimitCooldown = 0
  /\ LET gate == canMakeRequest(breaker, now)
         res == checkRateLimit(now, lastApiCall, apiCallCount, rateLimitWindow,
                               closureCooldown)
     IN  /\ cbRet' = gate.ret
         /\ breaker' = gate.b
         /\ cbOp' = "canMakeRequest"
         /\ cbFrom' = breaker.state
         /\ halfOpenAdmits' = AdmitsAfter(breaker.state, gate.b.state, halfOpenAdmits)
         /\ halfOpenSucc' = IF breaker.state = "half-open" THEN halfOpenSucc ELSE 0
         /\ IF ~gate.ret
            THEN /\ attempt' = NoAttempt
                 /\ UNCHANGED <<lastApiCall, apiCallCount, rateLimitWindow,
                                rateLimitCooldown, computeVars>>
            ELSE /\ attempt' = [made |-> TRUE, at |-> now, prevLast |-> lastApiCall,
                                allowed |-> res.allowed, message |-> res.message]
                 /\ rateLimitWindow' = res.windowStart
                 /\ rateLimitCooldown' =
                      IF res.setCooldown = -1 THEN rateLimitCooldown
                      ELSE res.setCooldown
                 /\ IF res.allowed
                    THEN /\ requestsStarted < MaxRequests + MaxDownRequests
                         /\ isComputing' = TRUE
                         /\ lastApiCall' = now
                         /\ apiCallCount' = res.count + 1
                         /\ retryCount' = 0
                         /\ lastError' = NoError
                         /\ computePc' = "fetching"
                         /\ request' = [status |-> "running", fetches |-> 0]
                         /\ requestsStarted' = requestsStarted + 1
                         /\ UNCHANGED <<apiKeyConfigured, pendingDelay>>
                    ELSE /\ apiCallCount' = res.count
                         /\ UNCHANGED <<lastApiCall, computeVars>>
  /\ UNCHANGED <<healthVars, engineVars, canvasVars, logVars, now, lastFailAt, consecFails,
                 closureCooldown, watchStart, watchCount>>

\* the message of a request that left the loop with its retries used up
AllRetriesFailedMessage(error) ==
  IF error = NoError \/ error.message = <<>>
  THEN <<"Failed", "to", "connect", "to", "AI", "service", ".">>
  ELSE error.message

\* the end of a request that got its answer: the return of the try block and
\* the finally block
Succeed(t) ==
  /\ analytics' = track(track(analytics, [call |-> trackCalls + 1]),
                        [call |-> trackCalls + 2])
  /\ trackCalls' = trackCalls + 2
  /\ breaker' = recordSuccess(breaker)
  /\ cbOp' = "recordSuccess"
  /\ cbFrom' = breaker.state
  /\ halfOpenAdmits' = 0
  /\ consecFails' = 0
  /\ halfOpenSucc' = IF breaker.state = "half-open" THEN halfOpenSucc + 1 ELSE 0
  /\ history' = Append(history, [role |-> "model", kind |-> "response"])
  /\ isComputing' = FALSE
  /\ computePc' = "idle"
  /\ UNCHANGED <<errorTracker, errorCalls, lastFailAt, cbRet>>

\* a failure path without the finally block
Fail_keepComputing(errorMessage, t) ==
  /\ analytics' = track(track(analytics, [call |-> trackCalls + 1]),
                        [call |-> trackCalls + 2])
  /\ trackCalls' = trackCalls + 2
  /\ errorTracker' = logError(errorTracker, [call |-> errorCalls + 1])
  /\ errorCalls' = errorCalls + 1
  /\ breaker' = recordFailure(breaker, t)
  /\ cbOp' = "recordFailure"
  /\ cbFrom' = breaker.state
  /\ halfOpenAdmits' = 0
  /\ lastFailAt' = t
  /\ consecFails' = consecFails + 1
  /\ halfOpenSucc' = 0
  /\ history' = Append(history, [role |-> "model", kind |-> "ERROR",
                                 message |-> errorMessage])
  /\ isComputing' = isComputing
  /\ computePc' = "idle"
  /\ UNCHANGED cbRet

\* a failure path that records the failure twice
Fail_recordTwice(errorMessage, t) ==
  /\ analytics' = track(track(analytics, [call |-> trackCalls + 1]),
                        [call |-> trackCalls + 2])
  /\ trackCalls' = trackCalls + 2
  /\ errorTracker' = logError(errorTracker, [call |-> errorCalls + 1])
  /\ errorCalls' = errorCalls + 1
  /\ breaker' = recordFailure(recordFailure(breaker, t), t)
  /\ cbOp' = "recordFailure"
  /\ cbFrom' = breaker.state
  /\ halfOpenAdmits' = 0
  /\ lastFailAt' = t
  /\ consecFails' = consecFails + 2
  /\ halfOpenSucc' = 0
  /\ history' = Append(history, [role |-> "model", kind |-> "ERROR",
                                 message |-> errorMessage])
  /\ isComputing' = FALSE
  /\ computePc' = "idle"
  /\ UNCHANGED cbRet

\* the end of a request that failed, after the loop or in the outer catch
\* block, and the finally block; t is Date.now()
Fail(errorMessage, t) ==
  /\ analytics' = track(track(analytics, [call |-> trackCalls + 1]),
                        [call |-> trackCalls + 2])
  /\ trackCalls' = trackCalls + 2
  /\ errorTracker' = logError(errorTracker, [call |-> errorCalls + 1])
  /\ errorCalls' = errorCalls + 1
  /\ breaker' = recordFailure(breaker, t)
  /\ cbOp' = "recordFailure"
  /\ cbFrom' = breaker.state
  /\ halfOpenAdmits' = 0
  /\ lastFailAt' = t
  /\ consecFails' = consecFails + 1
  /\ halfOpenSucc' = 0
  /\ history' = Append(history, [role |-> "model", kind |-> "ERROR",
                                 message |-> errorMessage])
  /\ isComputing' = FALSE
  /\ computePc' = "idle"
  /\ UNCHANGED cbRet

\* one iteration of the retry loop: the fetch and its response, or the throw
\* for a missing key, and everything up to the next await or to the end of
\* the function
ApiResponse(response) ==
  /\ computePc = "fetching"
  /\ response \in ResponsesFor(requestsStarted)
  /\ LET try == TryBlock(apiKeyConfigured, response, retryCount)
         t == IF ~try.fetched THEN now
              ELSE IF response.kind = "rejected" /\ response.error.name = "AbortError"
              THEN now + AbortMs
              ELSE now + ResponseMs
         caught == CatchBlock(try.error, retryCount)
         fetched == [request EXCEPT !.fetches = @ + (IF try.fetched THEN 1 ELSE 0)]
     IN  /\ now' = t
         /\ rateLimitCooldown' = IF try.setCooldown = -1 THEN rateLimitCooldown
                                 ELSE try.setCooldown
         /\ IF try.does = "return"
            THEN /\ Succeed(t)
                 /\ request' = [fetched EXCEPT !.status = "success"]
                 /\ UNCHANGED <<retryCount, pendingDelay, lastError>>
            ELSE IF try.does = "wait429"
            THEN /\ history' = Append(history, [role |-> "model", kind |-> "retrying",
                                                seconds |-> try.waitTime])
                 /\ computePc' = "waiting429"
                 /\ pendingDelay' = try.waitTime * 1000
                 /\ request' = fetched
                 /\ UNCHANGED <<retryCount, lastError, isComputing, breakerVars,
                                logVars>>
            ELSE IF caught.does = "throwOuter"
            THEN /\ Fail(caught.error.message, t)
                 /\ lastError' = try.error
                 /\ request' = [fetched EXCEPT !.status = "failed"]
                 /\ UNCHANGED <<retryCount, pendingDelay>>
            ELSE IF caught.does = "backoff"
            THEN /\ lastError' = try.error
                 /\ retryCount' = caught.retryCount
                 /\ computePc' = "waiting"
                 /\ pendingDelay' = caught.waitTime
                 /\ request' = fetched
                 /\ UNCHANGED <<history, isComputing, breakerVars, logVars>>
            ELSE /\ Fail(AllRetriesFailedMessage(try.error), t)
                 /\ lastError' = try.error
                 /\ retryCount' = caught.retryCount
                 /\ request' = [fetched EXCEPT !.status = "failed"]
                 /\ UNCHANGED pendingDelay
  /\ UNCHANGED <<healthVars, engineVars, nodes, links, selectedNodeId, selectedLinkId,
                 isCreating, newNodeLabel, errorMsg, nextId, nodeOps,
                 lastApiCall, apiCallCount, rateLimitWindow, closureCooldown,
                 attempt, watchStart, watchCount, apiKeyConfigured,
                 requestsStarted>>

\* the timer a retry waits on fires: the 429 branch counts the retry, and the
\* loop goes round while retryCount <= maxRetries
RetryTimer ==
  /\ computePc \in {"waiting", "waiting429"}
  /\ now' = now + pendingDelay
  /\ retryCount' = IF computePc = "waiting429" THEN retryCount + 1 ELSE retryCount
  /\ pendingDelay' = 0
  /\ IF retryCount' <= maxRetries
     THEN /\ computePc' = "fetching"
          /\ UNCHANGED <<breakerVars, logVars, history, isComputing, request>>
     ELSE /\ Fail(AllRetriesFailedMessage(lastError), now')
          /\ request' = [request EXCEPT !.status = "failed"]
  /\ UNCHANGED <<healthVars, engineVars, limiterVars, nodes, links, selectedNodeId,
                 selectedLinkId, isCreating, newNodeLabel, errorMsg, nextId,
                 nodeOps, apiKeyConfigured, lastError, requestsStarted>>

\* half a minute passes while no request is running; no cooldown is longer
IdleHalfMinute ==
  /\ computePc = "idle"
  /\ LimiterTick(30)

NextCompute ==
  \/ ComputeClick
  \/ \E response \in Responses : ApiResponse(response)
  \/ RetryTimer
  \/ IdleHalfMinute

SpecCompute == Init /\ [][NextCompute]_vars

\* every call of fetch settles (with a response, a rejection or the abort of
\* the 20 s timer) and every timer armed by setTimeout fires
SpecComputeLive ==
  /\ SpecCompute
  /\ WF_vars(\E response \in Responses : ApiResponse(response))
  /\ WF_vars(RetryTimer)

\* the attempt answered by response fails: its try block does not return
AttemptFails(response) ==
  /\ ApiResponse(response)
  /\ TryBlock(apiKeyConfigured, response, retryCount).does # "return"

\* the error of the failed attempt mentions 'API key', '401' or '402'
MentionsAuth(response) ==
  LET e == TryBlock(apiKeyConfigured, response, retryCount).error
  IN  \/ Includes(e.message, <<"API", "key">>)
      \/ Includes(e.message, <<"401">>)
      \/ Includes(e.message, <<"402">>)

\* the attempt was aborted by the 20 second timer
TimedOut(response) ==
  TryBlock(apiKeyConfigured, response, retryCount).error.name = "AbortError"

\* the step ends the request as failed / leaves it waiting for a retry
EndsRequest == computePc' = "idle" /\ ~isComputing' /\ request'.status = "failed"
WaitsForRetry == computePc' \in {"waiting", "waiting429"} /\ isComputing'

HasRetrying(h) == \E i \in 1..Len(h) : h[i].kind = "retrying"

\* C17: a compute request is retried at most 3 times, so it makes at most 4
\* calls of the API, whatever mix of 429 responses and other retryable
\* failures it meets.
C17_AtMostFourAttempts ==
  /\ request.fetches <= maxRetries + 1
  /\ computePc = "fetching" => request.fetches <= maxRetries

\* a request failed at its fourth call after 429 responses and a network error
C17_Witness ==
  /\ request.status = "failed"
  /\ request.fetches = maxRetries + 1
  /\ HasRetrying(history)
  /\ lastError = NetworkError

HasKeyWarning(h) == \E i \in 1..Len(h) : h[i] = KeyWarning

\* C24: when the OpenRouter API key is not configured at application start,
\* the chat history after initialization contains the warning message
\* 'WARNING: OpenRouter API key not configured...'.
C24_KeyWarningShown == ~apiKeyConfigured => HasKeyWarning(history)

\* the final messages of compute requests in the history
FinalMessages(h) == {i \in 1..Len(h) : h[i].kind \in {"response", "ERROR"}}

\* one final message for every request that finished, none for the one running,
\* and the last message of the history is the one of the request just finished
OneFinalMessageEach ==
  /\ isComputing <=> (computePc # "idle")
  /\ Cardinality(FinalMessages(history)) =
       requestsStarted - (IF isComputing THEN 1 ELSE 0)
  /\ (~isComputing /\ request.status = "success") =>
       history[Len(history)].kind = "response"
  /\ (~isComputing /\ request.status = "failed") =>
       history[Len(history)].kind = "ERROR"
  /\ isComputing => request.status = "running"

ClickRejected == ComputeClick /\ ~isComputing'

\* a step of a running request records one outcome if it ends the request and
\* nothing if the request goes on
OutcomeAtEndOnly ==
  ((\E response \in Responses : ApiResponse(response)) \/ RetryTimer) =>
    IF isComputing' THEN breaker' = breaker /\ cbOp' = cbOp
    ELSE IF request'.status = "success"
    THEN breaker' = recordSuccess(breaker) /\ cbOp' = "recordSuccess"
    ELSE /\ breaker' = recordFailure(breaker, now')
         /\ breaker'.failures = breaker.failures + 1
         /\ cbOp' = "recordFailure"

\* a click records no outcome, and a click turned down makes no API call
ClickRecordsNothing ==
  /\ ComputeClick =>
       /\ cbOp' = "canMakeRequest"
       /\ breaker' = canMakeRequest(breaker, now).b
       /\ breaker'.failures = breaker.failures
       /\ breaker'.lastFailureTime = breaker.lastFailureTime
  /\ ClickRejected => (request' = request /\ computePc' = "idle")

\* C27 as stated: a compute request admitted by the checks records exactly one
\* outcome on the circuit breaker, at its end and not at its retries; a request
\* turned down by the breaker or the rate limiter makes no API call, records no
\* outcome on the breaker and leaves the call counter and the last-call time
\* unchanged.
C27_RejectedLeavesCounter ==
  [][/\ OutcomeAtEndOnly
     /\ ClickRecordsNothing
     /\ ClickRejected =>
          (apiCallCount' = apiCallCount /\ lastApiCall' = lastApiCall)]_vars

\* C27 as the code has it: as above, but a request turned down by the rate
\* limiter after the rate-limit window has expired leaves the call counter at
\* 0, the window having been started afresh by the check; otherwise the
\* counter is unchanged, and the last-call time always is.
C27_OneOutcomePerRequest ==
  [][/\ OutcomeAtEndOnly
     /\ ClickRecordsNothing
     /\ ClickRejected =>
          /\ lastApiCall' = lastApiCall
          /\ apiCallCount' =
               IF cbRet' /\ now - rateLimitWindow > RATE_LIMIT_WINDOW
               THEN 0 ELSE apiCallCount]_vars

\* a request failed at its only call and recorded its one failure; the click
\* made a second later, the window having expired, was turned down by the
\* rate limiter and left the call counter at 0
C27_Witness ==
  /\ request.status = "failed"
  /\ request.fetches = 1
  /\ breaker.failures = 1
  /\ cbOp = "canMakeRequest"
  /\ cbRet
  /\ attempt.made
  /\ ~attempt.allowed
  /\ lastApiCall > 0
  /\ rateLimitWindow = now
  /\ apiCallCount = 0
  /\ ~isComputing

(***************************************************************************)
(* The health checker: checkHealth and the periodic checks.                *)
(***************************************************************************)

intervalMs == 60000

\* the HealthStatus checkHealth builds; storageOk is whether localStorage
\* accepted the test item
checkHealth(keyConfigured, storageOk, time) ==
  LET apiStatus == IF keyConfigured THEN "ok" ELSE "error"
      afterApi == IF keyConfigured THEN "healthy" ELSE "degraded"
  IN [status |-> IF storageOk THEN afterApi
                 ELSE IF afterApi = "unhealthy" THEN "unhealthy"
                 ELSE "degraded",
      timestamp |-> time,
      api |-> apiStatus,
      storage |-> IF storageOk THEN "ok" ELSE "error",
      available |-> storageOk]

\* healthChecker.checkHealth() called directly
CheckHealth ==
  /\ \E storageOk \in BOOLEAN :
       lastCheck' = checkHealth(apiKeyConfigured, storageOk, now)
  /\ UNCHANGED <<checkInterval, intervals, nextInterval, periodicChecks,
                 stopped>>
  /\ UNCHANGED <<engineVars, now, breakerVars, limiterVars, canvasVars,
                 logVars, computeVars>>

\* startPeriodicChecks: setInterval hands out a new id, which replaces the
\* one held in checkInterval
StartPeriodicChecks ==
  /\ nextInterval < MaxIntervals
  /\ nextInterval' = nextInterval + 1
  /\ intervals' = intervals \cup {nextInterval'}
  /\ checkInterval' = nextInterval'
  /\ stopped' = FALSE
  /\ UNCHANGED <<lastCheck, periodicChecks>>
  /\ UNCHANGED <<engineVars, now, breakerVars, limiterVars, canvasVars,
                 logVars, computeVars>>

\* stopPeriodicChecks: clears the interval held in checkInterval
StopPeriodicChecks ==
  /\ IF checkInterval # 0
     THEN /\ intervals' = intervals \ {checkInterval}
          /\ checkInterval' = 0
     ELSE UNCHANGED <<intervals, checkInterval>>
  /\ stopped' = TRUE
  /\ UNCHANGED <<lastCheck, nextInterval, periodicChecks>>
  /\ UNCHANGED <<engineVars, now, breakerVars, limiterVars, canvasVars,
                 logVars, computeVars>>

\* a live interval comes due, intervalMs after it last did: its callback
\* runs checkHealth
IntervalFires(id) ==
  /\ id \in intervals
  /\ periodicChecks < MaxChecks
  /\ periodicChecks' = periodicChecks + 1
  /\ now' = now + intervalMs
  /\ \E storageOk \in BOOLEAN :
       lastCheck' = checkHealth(apiKeyConfigured, storageOk, now')
  /\ UNCHANGED <<checkInterval, intervals, nextInterval, stopped>>
  /\ UNCHANGED <<engineVars, breakerVars, limiterVars, canvasVars, logVars,
                 computeVars>>

NextHealth ==
  \/ CheckHealth
  \/ StartPeriodicChecks
  \/ StopPeriodicChecks
  \/ \E id \in 1..MaxIntervals : IntervalFires(id)

SpecHealth == Init /\ [][NextHealth]_vars

\* C30: after stopPeriodicChecks has been called, and until periodic checks
\* are started again, no interval callback runs a health check, however many
\* times startPeriodicChecks was called before.
C30_NoCheckAfterStop ==
  [][~(stopped /\ \E id \in 1..MaxIntervals : IntervalFires(id))]_vars

====
